---- MODULE Spec2Model ----
(***************************************************************************)
(* Model of the task engine of obsidian-tasks-mcp (src/src/TaskParser.ts): *)
(* the line parser, the metadata serializer, the recurrence engine, the    *)
(* urgency score, the query language and completeTask, and of the          *)
(* complete_task request handler (src/src/index.ts).                       *)
(*                                                                         *)
(* Representation.  A line of a document is a record                       *)
(*   [indent, marker, box, body]                                           *)
(* indent: the leading run of whitespace and '>' characters; marker: the   *)
(* list marker ("" when the line has none); box: the character between     *)
(* the brackets of the checkbox ("none" when the line has no checkbox);    *)
(* body: the text after the checkbox as a sequence of tokens separated by  *)
(* single spaces.  A token is [k, s, d]: k its kind, s its text, d its     *)
(* date <<year, month, day>> (<<>> when it has none).  Kinds:              *)
(*   word     plain text without whitespace                                *)
(*   space    one extra space character                                    *)
(*   tag      a #tag                                                       *)
(*   prio     a priority marker: tri, up2 (two adjacent "up" markers),     *)
(*            up, mid, down, down2                                         *)
(*   due, sched, start, created, done                                      *)
(*            the calendar, hourglass, plane, plus and check-mark markers  *)
(*            followed by a YYYY-MM-DD date                                *)
(*   rec      the recurrence marker on its own                             *)
(* A date string YYYY-MM-DD is <<y, m, d>>; an absent optional field is    *)
(* <<>> (dates, recurrence) or "none" (priority).  A Date / moment value   *)
(* is an instant counted in hours since 2024-01-01T00:00Z.                 *)
(*                                                                         *)
(* An urgency score is an integer in units of 0.00001 (12.0 is 1200000).    *)
(* The strings the query language and the request handler look into are    *)
(* sequences of pieces: single characters for query lines, the separators  *)
(* and segments for paths.                                                 *)
(*                                                                         *)
(* Left out: failures of fs.writeFile, daylight-saving changes of the      *)
(* local offset, the rounding error of floating-point sums, and the debug  *)
(* log both completion functions append to.  The rule library (rrule) is   *)
(* reached only by 'every month on the last'; its call may throw.          *)
(***************************************************************************)
EXTENDS Integers, Sequences, FiniteSets, TLC

VARIABLES
  fs,       \* the file system: path -> document, a sequence of lines
  tz,       \* offset of the local time zone from UTC, in hours
  pc,       \* per caller: "idle" or "read" (between readFile and writeFile)
  call,     \* per caller: the id, path, line number and lines it holds
  ncalls,   \* number of completeTask calls started
  last,     \* outcome of the completeTask call that finished last
  rt,       \* round-trip experiment: the line, its task, the rebuilt line
  rc,       \* recurrence experiment: the task, the clock, the successor
  qr,       \* query experiment: the clock, the tasks, the query, the result
  ug,       \* urgency experiment: the dates and priority, the clock, the score
  hs        \* complete_task request: the id, the paths checked and opened

vars == <<fs, tz, pc, call, ncalls, last, rt, rc, qr, ug, hs>>

(***************************************************************************)
(* Bounds of the model.                                                    *)
(***************************************************************************)
MaxFileLen == 2
MaxCalls == 2
MaxPieces == 3

(***************************************************************************)
(* Calendar arithmetic of the moment library.                              *)
(***************************************************************************)
EpochYear == 2024

IsLeap(y) == (y % 4 = 0 /\ y % 100 # 0) \/ y % 400 = 0

DaysInYear(y) == IF IsLeap(y) THEN 366 ELSE 365

DaysInMonth(y, m) ==
  IF m = 2 THEN (IF IsLeap(y) THEN 29 ELSE 28)
  ELSE IF m \in {4, 6, 9, 11} THEN 30 ELSE 31

RECURSIVE DaysBeforeYear(_)
DaysBeforeYear(y) ==
  IF y <= EpochYear THEN 0 ELSE DaysInYear(y - 1) + DaysBeforeYear(y - 1)

RECURSIVE DaysBeforeMonth(_, _)
DaysBeforeMonth(y, m) ==
  IF m <= 1 THEN 0 ELSE DaysInMonth(y, m - 1) + DaysBeforeMonth(y, m - 1)

\* number of days from 2024-01-01 to the date <<y, m, d>>
DayNum(ymd) == DaysBeforeYear(ymd[1]) + DaysBeforeMonth(ymd[1], ymd[2]) + ymd[3] - 1

RECURSIVE FromDayNumM(_, _, _)
FromDayNumM(y, m, n) ==
  IF n < DaysInMonth(y, m) THEN <<y, m, n + 1>>
  ELSE FromDayNumM(y, m + 1, n - DaysInMonth(y, m))

RECURSIVE FromDayNumY(_, _)
FromDayNumY(y, n) ==
  IF n < DaysInYear(y) THEN FromDayNumM(y, 1, n)
  ELSE FromDayNumY(y + 1, n - DaysInYear(y))

\* the date <<y, m, d>> that lies n >= 0 days after 2024-01-01
YMD(n) == FromDayNumY(EpochYear, n)

\* integer division truncating toward zero (moment's diff truncates)
TruncDiv(a, b) == IF a >= 0 THEN a \div b ELSE -((-a) \div b)

\* moment("YYYY-MM-DD"): midnight of that day in the local time zone
MomentParse(ymd) == DayNum(ymd) * 24 - tz

\* moment(instant).format('YYYY-MM-DD'): the local calendar day
FormatLocal(i) == YMD((i + tz) \div 24)

\* moment.utc(instant).format('YYYY-MM-DD'): the UTC calendar day
FormatUtc(i) == YMD(i \div 24)

\* hour of the local day of an instant
LocalHour(i) == (i + tz) % 24

\* a.diff(b, 'days')
DiffDays(a, b) == TruncDiv(a - b, 24)

\* faulty variant: a day past the end of the target month runs into the next month
AddMonthsOverflow(ymd, n) ==
  LET idx == (ymd[1] * 12 + (ymd[2] - 1)) + n
      y == idx \div 12
      m == (idx % 12) + 1
  IN IF ymd[3] > DaysInMonth(y, m)
     THEN <<(idx + 1) \div 12, ((idx + 1) % 12) + 1, ymd[3] - DaysInMonth(y, m)>>
     ELSE <<y, m, ymd[3]>>

\* the date ymd moved by n months, the day clamped to the target month
AddMonthsYMD(ymd, n) ==
  LET idx == (ymd[1] * 12 + (ymd[2] - 1)) + n
      y == idx \div 12
      m == (idx % 12) + 1
      d == IF ymd[3] > DaysInMonth(y, m) THEN DaysInMonth(y, m) ELSE ymd[3]
  IN <<y, m, d>>

\* moment(instant).add(n, unit), computed on the local calendar fields
MomentAdd(i, n, unit) ==
  CASE unit = "days" -> i + 24 * n
    [] unit = "weeks" -> i + 24 * 7 * n
    [] unit = "months" -> DayNum(AddMonthsYMD(FormatLocal(i), n)) * 24 + LocalHour(i) - tz
    [] unit = "years" -> DayNum(AddMonthsYMD(FormatLocal(i), 12 * n)) * 24 + LocalHour(i) - tz

(***************************************************************************)
(* Tokens and lines.                                                       *)
(***************************************************************************)
NoDate == <<>>

Word(w) == [k |-> "word", s |-> w, d |-> NoDate]
SpaceTok == [k |-> "space", s |-> " ", d |-> NoDate]
Tag(t) == [k |-> "tag", s |-> t, d |-> NoDate]
Prio(p) == [k |-> "prio", s |-> p, d |-> NoDate]
Due(ymd) == [k |-> "due", s |-> "", d |-> ymd]
Sched(ymd) == [k |-> "sched", s |-> "", d |-> ymd]
Start(ymd) == [k |-> "start", s |-> "", d |-> ymd]
Created(ymd) == [k |-> "created", s |-> "", d |-> ymd]
Done(ymd) == [k |-> "done", s |-> "", d |-> ymd]
RecTok == [k |-> "rec", s |-> "", d |-> NoDate]

Line(indent, marker, box, body) ==
  [indent |-> indent, marker |-> marker, box |-> box, body |-> body]

\* words holding a character outside [a-zA-Z0-9, !]
NonPlainWords == {"e-mail"}

Null == [null |-> TRUE]

Digits == <<"0", "1", "2", "3", "4", "5", "6", "7", "8", "9">>

Front(s) == SubSeq(s, 1, Len(s) - 1)

\* String.prototype.trim on a token sequence: drop the extra spaces at both ends
RECURSIVE TrimEnd(_)
TrimEnd(s) ==
  IF s # <<>> /\ s[Len(s)].k = "space" THEN TrimEnd(Front(s)) ELSE s

RECURSIVE TrimStart(_)
TrimStart(s) ==
  IF s # <<>> /\ s[1].k = "space" THEN TrimStart(Tail(s)) ELSE s

Trim(s) == TrimStart(TrimEnd(s))

\* the subsequence of the tokens of kind k (in order)
RECURSIVE OfKind(_, _)
OfKind(s, k) ==
  IF s = <<>> THEN <<>>
  ELSE IF s[1].k = k THEN <<s[1]>> \o OfKind(Tail(s), k) ELSE OfKind(Tail(s), k)

\* the date of the first token of kind k: String.match of a date regex
FirstDate(s, k) == IF OfKind(s, k) = <<>> THEN NoDate ELSE OfKind(s, k)[1].d

(***************************************************************************)
(* TaskRegex                                                               *)
(***************************************************************************)
\* taskRegex: indentation, a list marker, spaces, a one-character checkbox
TaskRegexMatches(line) == line.marker # "" /\ line.box # "none"

\* the characters the class of recurrenceRegex excludes: the UTF-16 units
\* of the due, scheduled, start, created and priority markers and '#'.
\* The high surrogate of the recurrence marker is one of them; the
\* completion marker (U+2705) is not.
InRecurrenceClass(tok) ==
  tok.k \in {"due", "sched", "start", "created", "prio", "tag", "rec"}

\* the longest run of tokens outside the class at the start of s
RECURSIVE RunOutsideClass(_)
RunOutsideClass(s) ==
  IF s = <<>> \/ InRecurrenceClass(s[1]) THEN <<>>
  ELSE <<s[1]>> \o RunOutsideClass(Tail(s))

\* description.match(recurrenceRegex)[1], <<>> when there is no match.
\* After the marker and one optional space the capture takes at least one
\* character and stops before the spaces leading to a class character, or
\* at the end; when a class character follows the marker at once the
\* capture is the separating space itself.
RECURSIVE RecurrenceMatchAll(_)
RecurrenceMatchAll(s) ==
  IF s = <<>> THEN <<>>
  ELSE IF s[1].k = "rec" /\ Len(s) > 1
       THEN LET run == RunOutsideClass(Tail(s))
            IN IF Len(run) = Len(s) - 1 THEN run
               ELSE IF TrimEnd(run) = <<>> THEN <<SpaceTok>>
               ELSE TrimEnd(run)
       ELSE RecurrenceMatchAll(Tail(s))

RecurrenceMatch(s) == RecurrenceMatchAll(s)

PriorityOfMarker(p) ==
  CASE p = "tri" -> "highest"
    [] p = "up2" -> "highest"
    [] p = "up" -> "high"
    [] p = "mid" -> "medium"
    [] p = "down" -> "low"
    [] p = "down2" -> "lowest"

StatusOf(statusChar) ==
  IF statusChar \in {"x", "X"} THEN "complete"
  ELSE IF statusChar = "-" THEN "cancelled"
  ELSE IF statusChar = "/" THEN "in_progress"
  ELSE IF statusChar \in {" ", ">", "<"} THEN "incomplete"
  ELSE "non_task"

TagTexts(s) == [i \in 1..Len(OfKind(s, "tag")) |-> OfKind(s, "tag")[i].s]

\* the decimal digits of n >= 0, one character per element
RECURSIVE NumStr(_)
NumStr(n) ==
  IF n < 10 THEN <<Digits[n + 1]>> ELSE NumStr(n \div 10) \o <<Digits[(n % 10) + 1]>>

\* `${filePath}:${lineNumber}`, a string as the sequence of its pieces
MakeId(filePath, lineNumber) ==
  IF lineNumber < 0 THEN filePath \o <<":", "-">> \o NumStr(-lineNumber)
  ELSE filePath \o <<":">> \o NumStr(lineNumber)

(***************************************************************************)
(* parseTaskLine                                                           *)
(***************************************************************************)
ParseTaskLine(line, filePath, lineNumber) ==
  IF ~TaskRegexMatches(line) THEN Null
  ELSE
    LET description == Trim(line.body)
        priorityMatches == OfKind(description, "prio")
    IN [ id |-> MakeId(filePath, lineNumber),
         description |-> description,
         status |-> StatusOf(line.box),
         statusSymbol |-> line.box,
         filePath |-> filePath,
         lineNumber |-> lineNumber,
         tags |-> TagTexts(description),
         dueDate |-> FirstDate(description, "due"),
         scheduledDate |-> FirstDate(description, "sched"),
         startDate |-> FirstDate(description, "start"),
         createdDate |-> FirstDate(description, "created"),
         priority |-> IF priorityMatches = <<>> THEN "none"
                      ELSE PriorityOfMarker(priorityMatches[1].s),
         recurrence |-> RecurrenceMatch(description),
         originalMarkdown |-> line ]

(***************************************************************************)
(* TaskSerializer                                                          *)
(***************************************************************************)
MaxRuns == 20

IsPlain(tok) ==
  tok.k = "space" \/ (tok.k = "word" /\ tok.s \notin NonPlainWords)

\* index of the last recurrence marker of s, 0 when there is none
RECURSIVE LastRecIndex(_)
LastRecIndex(s) ==
  IF s = <<>> THEN 0
  ELSE IF s[Len(s)].k = "rec" THEN Len(s) ELSE LastRecIndex(Front(s))

\* the serializer's recurrenceRegex: the marker followed, up to the end of
\* the string, by at least one character, all of [a-zA-Z0-9, !]
SerializerRecurrenceMatches(s) ==
  LET i == LastRecIndex(s)
  IN /\ i > 0
     /\ i < Len(s)
     /\ \A j \in (i + 1)..Len(s) : IsPlain(s[j])

StripKind(s, k) ==
  IF s # <<>> /\ s[Len(s)].k = k THEN TrimEnd(Front(s)) ELSE s

\* the priority regex removes one marker character from the end
StripPriority(s) ==
  IF s # <<>> /\ s[Len(s)].k = "prio"
  THEN (IF s[Len(s)].s = "up2" THEN Front(s) \o <<Prio("up")>>
        ELSE TrimEnd(Front(s)))
  ELSE s

StripRecurrence(s) ==
  IF SerializerRecurrenceMatches(s)
  THEN TrimEnd(SubSeq(s, 1, LastRecIndex(s) - 1))
  ELSE s

\* one run of the while loop of extractCleanDescription on the pair
\* <<cleanDescription, trailingTags>>
CleanPass(st) ==
  LET s0 == st[1]
      tagged == s0 # <<>> /\ s0[Len(s0)].k = "tag"
      s1 == IF tagged THEN TrimEnd(Front(s0)) ELSE s0
      t1 == IF tagged THEN <<s0[Len(s0)]>> \o st[2] ELSE st[2]
      s2 == StripPriority(s1)
      s3 == StripKind(s2, "done")
      s4 == StripKind(s3, "due")
      s5 == StripKind(s4, "sched")
      s6 == StripKind(s5, "start")
      s7 == StripRecurrence(s6)
  IN <<s7, t1>>

RECURSIVE CleanLoop(_, _)
CleanLoop(st, runs) ==
  IF runs >= MaxRuns \/ CleanPass(st) = st THEN st
  ELSE CleanLoop(CleanPass(st), runs + 1)

ExtractCleanDescription(fullDescription) ==
  LET st == CleanLoop(<<fullDescription, <<>> >>, 0)
  IN st[1] \o st[2]

MarkerOfPriority(p) ==
  CASE p = "highest" -> "tri"
    [] p = "high" -> "up"
    [] p = "medium" -> "mid"
    [] p = "low" -> "down"
    [] p = "lowest" -> "down2"

Serialize(task) ==
  ExtractCleanDescription(task.description)
    \o (IF task.priority # "none" THEN <<Prio(MarkerOfPriority(task.priority))>> ELSE <<>>)
    \o (IF task.recurrence # <<>> THEN <<RecTok>> \o task.recurrence ELSE <<>>)
    \o (IF task.startDate # NoDate THEN <<Start(task.startDate)>> ELSE <<>>)
    \o (IF task.scheduledDate # NoDate THEN <<Sched(task.scheduledDate)>> ELSE <<>>)
    \o (IF task.dueDate # NoDate THEN <<Due(task.dueDate)>> ELSE <<>>)

BuildTaskLine(task) == Line("", "-", task.statusSymbol, Serialize(task))


(***************************************************************************)
(* RecurrenceUtils                                                         *)
(*                                                                         *)
(* Rule texts are sequences of lower-case words of RuleVocabulary.         *)
(***************************************************************************)
RuleVocabulary ==
  {"every", "day", "days", "week", "weeks", "month", "months", "year", "years",
   "0", "1", "2", "3", "on", "the", "last", "fortnight", "when", "done",
   "january", "february", "15th"}

NumberWords == {"0", "1", "2", "3"}

\* parseInt of a word of NumberWords
ParseIntWord(w) ==
  CASE w = "0" -> 0 [] w = "1" -> 1 [] w = "2" -> 2 [] w = "3" -> 3

\* the words of a rule; a token that is no word matches no pattern
RuleText(rule) ==
  [i \in 1..Len(rule) |-> IF rule[i].k = "word" THEN rule[i].s ELSE "?"]

ParseRecurrenceRule(rule) ==
  LET trimmed == Trim(rule)
      n == Len(trimmed)
      whenDone == /\ n >= 3
                  /\ trimmed[n - 1] = Word("when")
                  /\ trimmed[n] = Word("done")
  IN [ rule |-> IF whenDone THEN Trim(SubSeq(trimmed, 1, n - 2)) ELSE trimmed,
       whenDone |-> whenDone ]

ClassifyPattern(rule) ==
  LET t == RuleText(rule)
  IN IF \/ /\ Len(t) = 3
            /\ t[1] = "every"
            /\ t[2] \in NumberWords
            /\ t[3] \in {"day", "days", "week", "weeks", "month", "months", "year", "years"}
        \/ /\ Len(t) = 2
            /\ t[1] = "every"
            /\ t[2] \in {"day", "week", "month", "year"}
     THEN "simple" ELSE "complex"

UnitOf(w) ==
  CASE w \in {"day", "days"} -> "days"
    [] w \in {"week", "weeks"} -> "weeks"
    [] w \in {"month", "months"} -> "months"
    [] w \in {"year", "years"} -> "years"

UnitWords == {"day", "days", "week", "weeks", "month", "months", "year", "years"}

ParseSimplePattern(rule) ==
  LET t == RuleText(rule)
  IN IF Len(t) = 3 /\ t[1] = "every" /\ t[2] \in NumberWords /\ t[3] \in UnitWords
     THEN [interval |-> ParseIntWord(t[2]), unit |-> UnitOf(t[3])]
     ELSE IF Len(t) = 2 /\ t[1] = "every" /\ t[2] \in UnitWords
     THEN [interval |-> 1, unit |-> UnitOf(t[2])]
     ELSE Null

\* moment(date).isValid() of a YYYY-MM-DD string
IsValidYMD(ymd) ==
  /\ Len(ymd) = 3
  /\ ymd[2] \in 1..12
  /\ ymd[3] \in 1..DaysInMonth(ymd[1], ymd[2])

EnsureValidDate(date) ==
  LET ymd == FormatLocal(date)
  IN IF ymd[3] <= DaysInMonth(ymd[1], ymd[2]) THEN date
     ELSE DayNum(<<ymd[1], ymd[2], DaysInMonth(ymd[1], ymd[2])>>) * 24 - tz

CalculateSimpleNextOccurrence(pattern, referenceDate) ==
  EnsureValidDate(MomentAdd(referenceDate, pattern.interval, pattern.unit))

\* the month names of obsidianToRRule, in calendar order
MonthNames ==
  <<"january", "february", "march", "april", "may", "june", "july", "august",
    "september", "october", "november", "december">>

MonthOfName(w) == CHOOSE m \in 1..12 : MonthNames[m] = w

\* the words of RuleVocabulary that match (\d+)(?:st|nd|rd|th)? with a day
\* of the month (a day 0 is left out)
DayOrdinals == {"1", "2", "3", "15th"}

DayOfOrdinal(w) == IF w = "15th" THEN 15 ELSE ParseIntWord(w)

\* obsidianToRRule on a complex rule over RuleVocabulary: 'every month on
\* the last' becomes MONTHLY with bymonthday -1, 'every <month> on the
\* <day>' YEARLY with bymonth and bymonthday; every other form gives null.
\* The forms classifyPattern calls simple never reach it.
ObsidianToRRule(rule, referenceDate) ==
  LET t == RuleText(rule)
  IN IF t = <<"every", "month", "on", "the", "last">>
     THEN [freq |-> "MONTHLY", bymonth |-> 0, bymonthday |-> -1, dtstart |-> referenceDate]
     ELSE IF /\ Len(t) = 5
             /\ t[1] = "every"
             /\ \E m \in 1..12 : MonthNames[m] = t[2]
             /\ t[3] = "on"
             /\ t[4] = "the"
             /\ t[5] \in DayOrdinals
     THEN [freq |-> "YEARLY", bymonth |-> MonthOfName(t[2]),
           bymonthday |-> DayOfOrdinal(t[5]), dtstart |-> referenceDate]
     ELSE Null

\* rrule.after(referenceDate): the rrule library computes on the UTC fields
\* of its dates, so the occurrences of a MONTHLY bymonthday -1 rule are the
\* last UTC day of each month, and those of a YEARLY rule the day of the
\* month of each year, at the UTC time of day of dtstart.
RRuleAfter(rrule, referenceDate) ==
  LET hour == rrule.dtstart % 24
      ymd == YMD(referenceDate \div 24)
      lastThis == DayNum(<<ymd[1], ymd[2], DaysInMonth(ymd[1], ymd[2])>>)
      nxt == AddMonthsYMD(<<ymd[1], ymd[2], 1>>, 1)
      lastNext == DayNum(<<nxt[1], nxt[2], DaysInMonth(nxt[1], nxt[2])>>)
      thisYear == DayNum(<<ymd[1], rrule.bymonth, rrule.bymonthday>>)
      nextYear == DayNum(<<ymd[1] + 1, rrule.bymonth, rrule.bymonthday>>)
  IN IF rrule.freq = "YEARLY"
     THEN (IF thisYear * 24 + hour > referenceDate THEN thisYear * 24 + hour
           ELSE nextYear * 24 + hour)
     ELSE IF lastThis * 24 + hour > referenceDate THEN lastThis * 24 + hour
     ELSE lastNext * 24 + hour

GetReferenceDate(task) ==
  IF task.dueDate # NoDate /\ IsValidYMD(task.dueDate) THEN MomentParse(task.dueDate)
  ELSE IF task.scheduledDate # NoDate /\ IsValidYMD(task.scheduledDate)
       THEN MomentParse(task.scheduledDate)
  ELSE IF task.startDate # NoDate /\ IsValidYMD(task.startDate)
       THEN MomentParse(task.startDate)
  ELSE -1

GetPrimaryDateField(task) ==
  IF task.dueDate # NoDate THEN "dueDate"
  ELSE IF task.scheduledDate # NoDate THEN "scheduledDate"
  ELSE IF task.startDate # NoDate THEN "startDate"
  ELSE "none"

DateField(task, field) ==
  CASE field = "dueDate" -> task.dueDate
    [] field = "scheduledDate" -> task.scheduledDate
    [] field = "startDate" -> task.startDate
    [] field = "none" -> NoDate

GetDateFromTask(task, field) ==
  IF field = "none" THEN -1
  ELSE IF IsValidYMD(DateField(task, field)) THEN MomentParse(DateField(task, field))
  ELSE -1

BuildTaskMarkdown(task) == Line("", "-", task.statusSymbol, Serialize(task))

\* the date `other` of the successor in "when done" mode: the next date
\* moved by the distance in days between `other` and the primary date
RelativeDate(nextDate, other, primary) ==
  FormatLocal(EnsureValidDate(
    MomentAdd(nextDate, DiffDays(MomentParse(other), MomentParse(primary)), "days")))

\* the date `original` moved by daysDiff days
ShiftedDate(original, daysDiff) ==
  FormatLocal(EnsureValidDate(MomentAdd(MomentParse(original), daysDiff, "days")))

Thrown == [thrown |-> TRUE]

\* faulty variant: the completion date anchors every rule
ReferenceDateAlwaysCompletion(task, whenDone, completionDate) ==
  IF completionDate # -1 THEN completionDate ELSE GetReferenceDate(task)

\* the anchor of the calculation, -1 when the task has none
ReferenceDateOf(task, whenDone, completionDate) ==
  IF whenDone /\ completionDate # -1 THEN completionDate ELSE GetReferenceDate(task)

NoNextDate == -1
NextDateThrows == -2

\* the raw next date: an instant, NoNextDate when the code returns null,
\* NextDateThrows when it raises.  lib is the outcome of the call into the
\* rrule library: "ok" or "throws".
NextDateOf(rule, referenceDate, lib) ==
  IF ClassifyPattern(rule) = "simple"
  THEN (IF ParseSimplePattern(rule) = Null THEN NoNextDate
        ELSE CalculateSimpleNextOccurrence(ParseSimplePattern(rule), referenceDate))
  ELSE (IF ObsidianToRRule(rule, referenceDate) = Null THEN NoNextDate
        ELSE IF lib = "throws" THEN NextDateThrows
        ELSE RRuleAfter(ObsidianToRRule(rule, referenceDate), referenceDate))

\* the date fields of the successor, given the next date
WithNextDates(task, newTask, nextDate, whenDone, completionDate) ==
  LET primaryDateField == GetPrimaryDateField(task)
  IN
  IF whenDone /\ completionDate # -1
  THEN
    CASE primaryDateField = "dueDate" ->
           [newTask EXCEPT
              !.dueDate = FormatUtc(nextDate),
              !.scheduledDate =
                 IF task.scheduledDate # NoDate
                 THEN RelativeDate(nextDate, task.scheduledDate, task.dueDate) ELSE @,
              !.startDate =
                 IF task.startDate # NoDate
                 THEN RelativeDate(nextDate, task.startDate, task.dueDate) ELSE @]
      [] primaryDateField = "scheduledDate" ->
           [newTask EXCEPT
              !.scheduledDate = FormatLocal(nextDate),
              !.startDate =
                 IF task.startDate # NoDate
                 THEN RelativeDate(nextDate, task.startDate, task.scheduledDate) ELSE @]
      [] primaryDateField = "startDate" ->
           [newTask EXCEPT !.startDate = FormatLocal(nextDate)]
      [] primaryDateField = "none" ->
           [newTask EXCEPT !.dueDate = FormatLocal(nextDate)]
  ELSE
    LET originalPrimaryDate == GetDateFromTask(task, primaryDateField)
        daysDiff == DiffDays(nextDate, originalPrimaryDate)
    IN IF originalPrimaryDate # -1
       THEN [newTask EXCEPT
               !.dueDate = IF task.dueDate # NoDate
                           THEN ShiftedDate(task.dueDate, daysDiff) ELSE @,
               !.scheduledDate = IF task.scheduledDate # NoDate
                                 THEN ShiftedDate(task.scheduledDate, daysDiff) ELSE @,
               !.startDate = IF task.startDate # NoDate
                             THEN ShiftedDate(task.startDate, daysDiff) ELSE @]
       ELSE [newTask EXCEPT !.dueDate = FormatLocal(nextDate)]

\* calculateNextOccurrence(task, completionDate): the successor, Null, or
\* Thrown when the call raises.  completionDate is an instant, -1 when the
\* caller passes none.
CalculateNextOccurrence(task, completionDate, lib) ==
  IF task.recurrence = <<>> THEN Null
  ELSE
    LET parsed == ParseRecurrenceRule(task.recurrence)
        referenceDate == ReferenceDateOf(task, parsed.whenDone, completionDate)
        nextDate == NextDateOf(parsed.rule, referenceDate, lib)
        newTask == [task EXCEPT
                      !.id = MakeId(task.filePath, task.lineNumber + 1),
                      !.status = "incomplete",
                      !.statusSymbol = " "]
        dated == [WithNextDates(task, newTask, nextDate, parsed.whenDone, completionDate)
                    EXCEPT !.createdDate = NoDate]
    IN IF referenceDate = -1 THEN Null
       ELSE IF nextDate = NoNextDate THEN Null
       ELSE IF nextDate = NextDateThrows THEN Thrown
       ELSE [dated EXCEPT !.originalMarkdown = BuildTaskMarkdown(dated)]


(***************************************************************************)
(* completeTask                                                            *)
(***************************************************************************)
\* id.lastIndexOf(':'), 1-based; 0 when the id holds no ':'
RECURSIVE LastIndexOf(_, _)
LastIndexOf(s, c) ==
  IF s = <<>> THEN 0
  ELSE IF s[Len(s)] = c THEN Len(s) ELSE LastIndexOf(Front(s), c)

DigitValue(c) == CHOOSE v \in 0..9 : Digits[v + 1] = c

IsDigit(c) == \E v \in 0..9 : Digits[v + 1] = c

\* the value of the longest run of digits at the start of s, continuing acc
RECURSIVE DigitRun(_, _)
DigitRun(s, acc) ==
  IF s = <<>> \/ ~IsDigit(s[1]) THEN acc
  ELSE DigitRun(Tail(s), acc * 10 + DigitValue(s[1]))

RECURSIVE SkipWhitespace(_)
SkipWhitespace(s) ==
  IF s # <<>> /\ s[1] = " " THEN SkipWhitespace(Tail(s)) ELSE s

\* parseInt(str, 10): leading whitespace, an optional sign, then the digits
\* up to the first character that is none; NaN when there is no digit
ParseInt(str) ==
  LET t == SkipWhitespace(str)
      signed == t # <<>> /\ t[1] \in {"+", "-"}
      u == IF signed THEN Tail(t) ELSE t
  IN IF u = <<>> \/ ~IsDigit(u[1]) THEN [nan |-> TRUE, val |-> 0]
     ELSE [nan |-> FALSE,
           val |-> IF signed /\ t[1] = "-" THEN -DigitRun(u, 0) ELSE DigitRun(u, 0)]

\* updatedLine.includes of the completion marker
HasDoneMarker(line) == OfKind(line.body, "done") # <<>>

Failure(kind, lines) ==
  [success |-> FALSE, kind |-> kind, write |-> FALSE, lines |-> lines, created |-> FALSE]

Success(kind, lines, created) ==
  [success |-> TRUE, kind |-> kind, write |-> TRUE, lines |-> lines, created |-> created]

\* faulty variant: the new line goes above the line at index - 1
InsertAbove(lines, index, line) ==
  SubSeq(lines, 1, index - 2) \o <<line>> \o SubSeq(lines, index - 1, Len(lines))

InsertAt(lines, index, line) ==
  SubSeq(lines, 1, index - 1) \o <<line>> \o SubSeq(lines, index, Len(lines))

\* faulty variant: the new task line is inserted as it was built
WithoutIndentation(newTaskLine, indentation) == newTaskLine

\* the new task line with the indentation of the original line
WithIndentation(newTaskLine, indentation) ==
  IF indentation # "" /\ newTaskLine.indent # indentation
  THEN [newTaskLine EXCEPT !.indent = indentation]
  ELSE newTaskLine

\* faulty variant: a recurrence that cannot be calculated fails the completion
HandleRecurrenceAbort(updated, lineNumber, indentation, nextOccurrence) ==
  IF nextOccurrence = Thrown \/ nextOccurrence = Null
  THEN Failure("unexpected", updated)
  ELSE Success("created_next",
               InsertAt(updated, lineNumber + 1,
                        WithIndentation(nextOccurrence.originalMarkdown, indentation)),
               TRUE)

\* the result of completeTask for a recurring task: updated holds the
\* completed line, nextOccurrence is the result of calculateNextOccurrence
HandleRecurrence(updated, lineNumber, indentation, nextOccurrence) ==
  IF nextOccurrence = Thrown THEN Success("warning_no_next", updated, FALSE)
  ELSE IF nextOccurrence = Null THEN Success("note_no_next", updated, FALSE)
  ELSE Success("created_next",
               InsertAt(updated, lineNumber + 1,
                        WithIndentation(nextOccurrence.originalMarkdown, indentation)),
               TRUE)

\* originalLine.replace(checkboxRegex, '[x]') and the completion date,
\* appended unless the line holds a completion marker
CompletedLine(originalLine, today) ==
  LET checked == [originalLine EXCEPT !.box = "x"]
  IN IF HasDoneMarker(checked) THEN checked
     ELSE [checked EXCEPT !.body = @ \o <<Done(today)>>]

\* the task statuses completeTask refuses to complete
RefusedStatuses == {"complete"}

\* the part of completeTask that follows readFile: the lines read, the path
\* and line number of the id, the clock reading `now` and the outcome of the
\* rrule library give the result and the lines handed to writeFile
CompleteLines(lines, filePath, lineNumber, now, lib) ==
  IF lineNumber < 1 \/ lineNumber > Len(lines) THEN Failure("out_of_range", lines)
  ELSE
    LET originalLine == lines[lineNumber]
        task == ParseTaskLine(originalLine, filePath, lineNumber)
        today == FormatLocal(now)
        normalizedCompletionDate == MomentParse(today)
        updated == [lines EXCEPT ![lineNumber] = CompletedLine(originalLine, today)]
    IN IF task = Null THEN Failure("not_a_task", lines)
       ELSE IF task.status \in RefusedStatuses THEN Failure("already_completed", lines)
       ELSE IF task.recurrence = <<>> THEN Success("completed", updated, FALSE)
       ELSE HandleRecurrence(updated, lineNumber, originalLine.indent,
                             CalculateNextOccurrence(task, normalizedCompletionDate, lib))

(***************************************************************************)
(* Inputs                                                                  *)
(***************************************************************************)
TimeZones == {-5, 0, 2}

D0 == <<2025, 8, 1>>
D1 == <<2025, 8, 5>>
D2 == <<2025, 1, 31>>
D3 == <<2025, 1, 24>>
D4 == <<2025, 1, 17>>

\* clock readings: 2025-08-05T23:00Z and 2025-08-09T12:00Z
NowPool == {DayNum(<<2025, 8, 5>>) * 24 + 23, DayNum(<<2025, 8, 9>>) * 24 + 12}

LibOutcomes == {"ok", "throws"}

Rule(words) == [i \in 1..Len(words) |-> Word(words[i])]

VaultFile == <<"notes.md">>

TextLine == Line("", "", "none", <<Word("notes")>>)
PlainTask == Line("", "-", " ", <<Word("Task")>>)
WeeklyTask ==
  Line("  ", "-", " ", <<Word("Review"), RecTok>> \o Rule(<<"every", "week">>) \o <<Due(D1)>>)

FillerLines == {TextLine, PlainTask, WeeklyTask}

TargetLines ==
  FillerLines \cup
  { Line("", "-", "x", <<Word("Task"), Done(D0)>>),
    Line("", "-", "-", <<Word("Task")>>),
    Line("", "-", "?", <<Word("Task")>>),
    Line("", "*", "/", <<Word("Task"), Due(D1)>>),
    Line("", "-", " ", <<Word("Task"), Done(D0)>>),
    Line("", "-", " ",
         <<Word("Daily"), RecTok>> \o Rule(<<"every", "day", "when", "done">>) \o <<Due(D1)>>),
    Line("", "-", " ",
         <<Word("Task"), RecTok>> \o Rule(<<"every", "fortnight">>) \o <<Due(D1)>>),
    Line("", "-", " ", <<Word("Task"), RecTok>> \o Rule(<<"every", "week">>)),
    Line("", "-", " ",
         <<Word("Task"), RecTok>> \o Rule(<<"every", "2", "days", "when", "done">>)),
    Line("> ", "-", " ",
         <<Word("Task"), Prio("up"), RecTok>> \o Rule(<<"every", "month">>)
           \o <<Start(D4), Sched(D3), Due(D2), Tag("#work")>>),
    Line("", "-", " ",
         <<Word("Task"), RecTok>> \o Rule(<<"every", "month", "on", "the", "last">>)
           \o <<Due(D2)>>),
    Line("", "-", " ",
         <<Word("Task"), RecTok>> \o Rule(<<"every", "february", "on", "the", "last">>)
           \o <<Due(<<2025, 2, 28>>)>>),
    Line("", "-", " ",
         <<Word("Task"), RecTok>> \o Rule(<<"every", "january", "on", "the", "15th">>)
           \o <<Due(<<2025, 1, 15>>)>>),
    Line("    > > ", "*", "/",
         <<Word("Task"), Tag("#work"), Prio("down"), RecTok>> \o Rule(<<"every", "week">>)
           \o <<Due(D1), Tag("#home")>>) }

\* the documents: up to MaxFileLen lines, at most one outside FillerLines
RECURSIVE Documents(_)
Documents(n) ==
  IF n = 0 THEN {<<>>}
  ELSE Documents(n - 1) \cup
       { Append(d, l) : d \in {e \in Documents(n - 1) : Len(e) = n - 1}, l \in TargetLines }

InitialDocuments ==
  { d \in Documents(MaxFileLen) :
      /\ Len(d) >= 1
      /\ Cardinality({i \in 1..Len(d) : d[i] \notin FillerLines}) <= 1 }

\* the ids callers present: the lines of the vault file and beyond, a line
\* number with trailing text, no line number, no ':', another file
IdPool ==
  { VaultFile \o <<":">> \o NumStr(n) : n \in 0..(MaxFileLen + 1) } \cup
  { VaultFile \o <<":", "1", "a">>,
    VaultFile \o <<":", "x">>,
    VaultFile \o <<":">>,
    VaultFile,
    <<"other.md", ":", "1">> }

Callers == {"c1", "c2"}

(***************************************************************************)
(* The completion service: callers run completeTask against the vault.     *)
(***************************************************************************)
NoCall == [id |-> <<>>, filePath |-> <<>>, lineNumber |-> 0, lines |-> <<>>]

NoOutcome ==
  [seq |-> 0, caller |-> "", id |-> <<>>, lineNumber |-> 0, today |-> NoDate,
   lib |-> "", success |-> FALSE, kind |-> "", wrote |-> FALSE,
   before |-> <<>>, found |-> <<>>, after |-> <<>>, created |-> FALSE]

\* before: the lines the call read; found: the lines the file held when the
\* call returned or wrote (they differ when another call wrote in between)
Outcome(c, id, lineNumber, today, lib, res, before, found) ==
  [seq |-> ncalls, caller |-> c, id |-> id, lineNumber |-> lineNumber,
   today |-> today, lib |-> lib, success |-> res.success, kind |-> res.kind,
   wrote |-> res.write, before |-> before, found |-> found,
   after |-> res.lines,
   created |-> res.created]

Init ==
  /\ fs \in [{VaultFile} -> InitialDocuments]
  /\ tz \in TimeZones
  /\ pc = [c \in Callers |-> "idle"]
  /\ call = [c \in Callers |-> NoCall]
  /\ ncalls = 0
  /\ last = NoOutcome
  /\ rt = 0
  /\ rc = 0
  /\ qr = 0
  /\ ug = 0
  /\ hs = 0

\* completeTask up to the end of readFile
Begin(c) ==
  /\ pc[c] = "idle"
  /\ ncalls < MaxCalls
  /\ \E id \in IdPool :
       LET lastColonIndex == LastIndexOf(id, ":")
           filePath == SubSeq(id, 1, lastColonIndex - 1)
           lineNumber == ParseInt(SubSeq(id, lastColonIndex + 1, Len(id)))
       IN /\ ncalls' = ncalls + 1
          /\ IF lastColonIndex = 0
             THEN /\ last' = [Outcome(c, id, 0, NoDate, "", Failure("invalid_id", <<>>), <<>>, <<>>)
                                EXCEPT !.seq = ncalls + 1]
                  /\ UNCHANGED <<pc, call>>
             ELSE IF lineNumber.nan
             THEN /\ last' = [Outcome(c, id, 0, NoDate, "",
                                      Failure("invalid_line_number", <<>>), <<>>, <<>>)
                                EXCEPT !.seq = ncalls + 1]
                  /\ UNCHANGED <<pc, call>>
             ELSE IF filePath \notin DOMAIN fs
             THEN /\ last' = [Outcome(c, id, lineNumber.val, NoDate, "",
                                      Failure("read_failed", <<>>), <<>>, <<>>)
                                EXCEPT !.seq = ncalls + 1]
                  /\ UNCHANGED <<pc, call>>
             ELSE /\ call' = [call EXCEPT ![c] =
                                [id |-> id, filePath |-> filePath,
                                 lineNumber |-> lineNumber.val, lines |-> fs[filePath]]]
                  /\ pc' = [pc EXCEPT ![c] = "read"]
                  /\ UNCHANGED last
  /\ UNCHANGED <<fs, tz, rt, rc, qr, ug, hs>>

\* faulty variant: the call writes its completed line into the lines the
\* file holds at the time of the write
CommitMerging(c) ==
  /\ pc[c] = "read"
  /\ \E now \in NowPool, lib \in LibOutcomes :
       LET res == CompleteLines(call[c].lines, call[c].filePath,
                                call[c].lineNumber, now, lib)
           held == fs[call[c].filePath]
       IN /\ fs' = IF res.write
                   THEN [fs EXCEPT ![call[c].filePath] =
                           [held EXCEPT ![call[c].lineNumber] = res.lines[call[c].lineNumber]]]
                   ELSE fs
          /\ last' = Outcome(c, call[c].id, call[c].lineNumber, FormatLocal(now),
                             lib, res, call[c].lines, held)
  /\ pc' = [pc EXCEPT ![c] = "idle"]
  /\ call' = [call EXCEPT ![c] = NoCall]
  /\ UNCHANGED <<tz, ncalls, rt, rc, qr, ug, hs>>

\* completeTask from the split of the file content to the return
Commit(c) ==
  /\ pc[c] = "read"
  /\ \E now \in NowPool, lib \in LibOutcomes :
       LET res == CompleteLines(call[c].lines, call[c].filePath,
                                call[c].lineNumber, now, lib)
       IN /\ fs' = IF res.write THEN [fs EXCEPT ![call[c].filePath] = res.lines] ELSE fs
          /\ last' = Outcome(c, call[c].id, call[c].lineNumber, FormatLocal(now),
                             lib, res, call[c].lines, fs[call[c].filePath])
  /\ pc' = [pc EXCEPT ![c] = "idle"]
  /\ call' = [call EXCEPT ![c] = NoCall]
  /\ UNCHANGED <<tz, ncalls, rt, rc, qr, ug, hs>>

\* one caller, one call at a time
Next == Begin("c1") \/ Commit("c1")

Spec == Init /\ [][Next]_vars


(***************************************************************************)
(* Claims about completeTask, checked under Spec.                          *)
(***************************************************************************)
\* the target line of the call that finished last, as completeTask parsed it
LastInRange == last.lineNumber \in 1..Len(last.before)
LastTarget == last.before[last.lineNumber]
LastTask == ParseTaskLine(LastTarget, VaultFile, last.lineNumber)

\* C1: when completeTask succeeds on line n of a document of k lines, the
\* written document is the original with line n completed (status character
\* 'x', the completion date appended unless the line holds a completion
\* marker) and with either no new line or one new line at position n + 1;
\* every other line keeps its text and its order.
C1_CompletionFrame ==
  last.success =>
    LET n == last.lineNumber
        b == last.before
        a == last.after
        k == Len(b)
    IN /\ n \in 1..k
       /\ last.wrote
       /\ fs[VaultFile] = a
       /\ a[n].indent = b[n].indent
       /\ a[n].marker = b[n].marker
       /\ a[n].box = "x"
       /\ a[n].body = IF \E i \in 1..Len(b[n].body) : b[n].body[i].k = "done"
                      THEN b[n].body
                      ELSE b[n].body \o <<Done(last.today)>>
       /\ \A i \in 1..(n - 1) : a[i] = b[i]
       /\ \/ Len(a) = k /\ ~last.created /\ \A i \in (n + 1)..k : a[i] = b[i]
          \/ Len(a) = k + 1 /\ last.created /\ \A i \in (n + 1)..k : a[i + 1] = b[i]

\* a successor was inserted between two lines of the document
C1_Witness ==
  last.success /\ last.created /\ last.lineNumber < Len(last.before)

LineNumberText(id) == SubSeq(id, LastIndexOf(id, ":") + 1, Len(id))

IsNumeric(str) == str # <<>> /\ \A i \in 1..Len(str) : IsDigit(str[i])

\* C2: completeTask fails and writes nothing when the id has no ':', when
\* the line number is not numeric, when it is outside 1..(number of lines),
\* when the target line is no task, or when the task is already complete.
C2_FailureCases ==
  (/\ last.seq > 0
   /\ \/ LastIndexOf(last.id, ":") = 0
      \/ ~IsNumeric(LineNumberText(last.id))
      \/ ~LastInRange
      \/ LastTask = Null
      \/ LastTask.status = "complete")
  => (~last.success /\ ~last.wrote)

\* C3: completeTask succeeds only on a task whose status is incomplete; on a
\* target line of any other status it fails and leaves the file unchanged.
C3_OnlyIncompleteCompleted ==
  (/\ last.seq > 0
   /\ LastIndexOf(last.id, ":") # 0
   /\ LastInRange
   /\ LastTask # Null
   /\ LastTask.status # "incomplete")
  => (~last.success /\ ~last.wrote)

\* C4: when the completed task carries recurrence text for which
\* calculateNextOccurrence returns null or throws, completeTask still reports
\* success and writes the completed line, inserts no successor, and its
\* message says that the next occurrence could not be created.
C4_RecurrenceFailureStillCompletes ==
  (/\ last.seq > 0
   /\ LastIndexOf(last.id, ":") # 0
   /\ LastInRange
   /\ LastTask # Null
   /\ LastTask.status # "complete"
   /\ LastTask.recurrence # <<>>
   /\ LET next == CalculateNextOccurrence(LastTask, MomentParse(last.today), last.lib)
      IN next = Null \/ next = Thrown)
  => /\ last.success
     /\ last.wrote
     /\ fs[VaultFile] = last.after
     /\ Len(last.after) = Len(last.before)
     /\ last.after[last.lineNumber].box = "x"
     /\ \E i \in 1..Len(last.after[last.lineNumber].body) :
          last.after[last.lineNumber].body[i].k = "done"
     /\ ~last.created
     /\ last.kind \in {"note_no_next", "warning_no_next"}

\* a recurring task without any date was completed: no next occurrence
C4_Witness ==
  /\ last.success
  /\ last.kind = "note_no_next"
  /\ LastTask.recurrence # <<>>
  /\ LastTask.dueDate = NoDate


(***************************************************************************)
(* The recurrence engine on its own: calculateNextOccurrence applied to a  *)
(* parsed task line and a completion day, as completeTask calls it.        *)
(***************************************************************************)
RecRules ==
  { Rule(<<"every", "day">>), Rule(<<"every", "2", "days">>),
    Rule(<<"every", "0", "days">>), Rule(<<"every", "week">>),
    Rule(<<"every", "2", "weeks">>), Rule(<<"every", "month">>),
    Rule(<<"every", "3", "months">>), Rule(<<"every", "year">>),
    Rule(<<"every", "month", "on", "the", "last">>),
    Rule(<<"every", "january", "on", "the", "15th">>),
    Rule(<<"every", "february", "on", "the", "last">>),
    Rule(<<"every", "fortnight">>) }

WhenDoneSuffixes == {<<>>, Rule(<<"when", "done">>)}

RecDueDates == {NoDate, <<2025, 8, 5>>, <<2025, 1, 31>>, <<2024, 2, 29>>}
RecScheduledDates == {NoDate, <<2025, 1, 24>>, <<2025, 8, 3>>}
RecStartDates == {NoDate, <<2025, 1, 17>>}
CompletionDays == {<<2025, 8, 5>>, <<2025, 8, 9>>, <<2025, 1, 31>>}

RecLine(rule, start, sched, due) ==
  Line("", "-", " ",
       <<Word("Task"), RecTok>> \o rule
         \o (IF start # NoDate THEN <<Start(start)>> ELSE <<>>)
         \o (IF sched # NoDate THEN <<Sched(sched)>> ELSE <<>>)
         \o (IF due # NoDate THEN <<Due(due)>> ELSE <<>>))

\* the shapes of the lines of recurring tasks: as it is; in progress with
\* tags and a priority; unchecked with its completion date left at the end;
\* a completion date followed by text in the description; a created date,
\* or text, after the dates
RecShapes == {"plain", "busy", "unchecked", "done_inside", "created_last", "text_last"}

ShapedLine(shape, line) ==
  CASE shape = "plain" -> line
    [] shape = "busy" ->
         [line EXCEPT !.box = "/",
                      !.body = <<Tag("#home"), Word("Task"), Prio("down"), Tag("#work")>>
                                 \o Tail(@)]
    [] shape = "unchecked" -> [line EXCEPT !.body = @ \o <<Done(D0)>>]
    [] shape = "done_inside" ->
         [line EXCEPT !.body = <<Word("Task"), Done(D0), Word("again")>> \o Tail(@)]
    [] shape = "created_last" -> [line EXCEPT !.body = @ \o <<Created(D0)>>]
    [] shape = "text_last" -> [line EXCEPT !.body = @ \o <<Word("note")>>]

InitRec ==
  /\ tz \in TimeZones
  /\ \E rule \in RecRules, suffix \in WhenDoneSuffixes, start \in RecStartDates,
        sched \in RecScheduledDates, due \in RecDueDates,
        cd \in CompletionDays, lib \in LibOutcomes, shape \in RecShapes :
       rc = [ phase |-> "task",
              task |-> ParseTaskLine(ShapedLine(shape, RecLine(rule \o suffix, start, sched, due)),
                                     VaultFile, 1),
              cd |-> cd, lib |-> lib,
              rule |-> <<>>, whenDone |-> FALSE,
              anchor |-> NoDate, nextDate |-> NoDate, next |-> Null ]
  /\ fs = [f \in {VaultFile} |-> <<>>]
  /\ pc = [c \in Callers |-> "idle"]
  /\ call = [c \in Callers |-> NoCall]
  /\ ncalls = 0
  /\ last = NoOutcome
  /\ rt = 0
  /\ qr = 0
  /\ ug = 0
  /\ hs = 0

\* the rule, the anchor and the raw next date (as local calendar days)
RecAnchor ==
  /\ rc.phase = "task"
  /\ LET parsed == ParseRecurrenceRule(rc.task.recurrence)
         referenceDate == ReferenceDateOf(rc.task, parsed.whenDone, MomentParse(rc.cd))
         nextDate == IF referenceDate = -1 THEN NoNextDate
                     ELSE NextDateOf(parsed.rule, referenceDate, rc.lib)
     IN rc' = [rc EXCEPT
                 !.phase = "anchored",
                 !.rule = parsed.rule,
                 !.whenDone = parsed.whenDone,
                 !.anchor = IF referenceDate = -1 THEN NoDate ELSE FormatLocal(referenceDate),
                 !.nextDate = IF nextDate < 0 THEN NoDate ELSE FormatLocal(nextDate)]
  /\ UNCHANGED <<fs, tz, pc, call, ncalls, last, rt, qr, ug, hs>>

\* the successor
RecSuccessor ==
  /\ rc.phase = "anchored"
  /\ rc' = [rc EXCEPT
              !.phase = "done",
              !.next = CalculateNextOccurrence(rc.task, MomentParse(rc.cd), rc.lib)]
  /\ UNCHANGED <<fs, tz, pc, call, ncalls, last, rt, qr, ug, hs>>

NextRec == RecAnchor \/ RecSuccessor

SpecRec == InitRec /\ [][NextRec]_vars

RecHasSuccessor == rc.phase = "done" /\ rc.next # Null /\ rc.next # Thrown

\* the primary date of a task: the first present of due, scheduled, start
PrimaryDate(task) == DateField(task, GetPrimaryDateField(task))

\* the next date of a simple rule counted on the calendar
SimpleNextYMD(pattern, ymd) ==
  CASE pattern.unit = "days" -> YMD(DayNum(ymd) + pattern.interval)
    [] pattern.unit = "weeks" -> YMD(DayNum(ymd) + 7 * pattern.interval)
    [] pattern.unit = "months" -> AddMonthsYMD(ymd, pattern.interval)
    [] pattern.unit = "years" -> AddMonthsYMD(ymd, 12 * pattern.interval)

\* the date field of the successor is the original moved by delta days, and
\* is absent when the original is
MovedBy(original, successor, delta) ==
  IF original = NoDate THEN successor = NoDate
  ELSE successor = YMD(DayNum(original) + delta)

IsEveryNDays(rule) ==
  /\ ClassifyPattern(rule) = "simple"
  /\ ParseSimplePattern(rule).unit = "days"

\* C6: for a task with a due date and rule 'every N days when done'
\* completed on local day D, the successor is due on D + N, whatever the
\* offset of the local time zone from UTC.
C6_WhenDoneDueDate ==
  (RecHasSuccessor /\ rc.whenDone /\ rc.task.dueDate # NoDate /\ IsEveryNDays(rc.rule))
    => rc.next.dueDate = YMD(DayNum(rc.cd) + ParseSimplePattern(rc.rule).interval)

\* the distance in days from the primary date to another date is kept
SameOffset(t, s, field) ==
  IF DateField(t, field) = NoDate THEN DateField(s, field) = NoDate
  ELSE /\ DateField(s, field) # NoDate
       /\ DayNum(DateField(s, field)) - DayNum(PrimaryDate(s))
            = DayNum(DateField(t, field)) - DayNum(PrimaryDate(t))

\* C7: in 'when done' mode the primary date of the successor is the next
\* date computed from the completion date, every other date present on the
\* original keeps its distance in days from the primary date, and an absent
\* date stays absent.
C7_WhenDoneOffsets ==
  (RecHasSuccessor /\ rc.whenDone /\ PrimaryDate(rc.task) # NoDate) =>
    /\ rc.anchor = rc.cd
    /\ GetPrimaryDateField(rc.next) = GetPrimaryDateField(rc.task)
    /\ PrimaryDate(rc.next) = rc.nextDate
    /\ SameOffset(rc.task, rc.next, "dueDate")
    /\ SameOffset(rc.task, rc.next, "scheduledDate")
    /\ SameOffset(rc.task, rc.next, "startDate")

IsMonthsOrYears(rule) ==
  /\ ClassifyPattern(rule) = "simple"
  /\ ParseSimplePattern(rule).unit \in {"months", "years"}

MonthsOf(pattern) ==
  IF pattern.unit = "years" THEN 12 * pattern.interval ELSE pattern.interval

\* C8: for simple rules counted in months or years the next date lies in
\* the target month, on the day of the anchor or, when the target month has
\* no such day, on its last day; 'every year' from 2024-02-29 gives
\* 2025-02-28 and 'every month' from 2025-01-31 gives 2025-02-28.
C8_MonthEndClamp ==
  (rc.phase \in {"anchored", "done"} /\ rc.anchor # NoDate /\ IsMonthsOrYears(rc.rule)) =>
    LET a == rc.anchor
        n == MonthsOf(ParseSimplePattern(rc.rule))
        ty == a[1] + ((a[2] - 1 + n) \div 12)
        tm == ((a[2] - 1 + n) % 12) + 1
    IN /\ rc.nextDate # NoDate
       /\ rc.nextDate[1] = ty
       /\ rc.nextDate[2] = tm
       /\ rc.nextDate[3] = IF a[3] > DaysInMonth(ty, tm) THEN DaysInMonth(ty, tm) ELSE a[3]
       /\ (a = <<2024, 2, 29>> /\ rc.rule = Rule(<<"every", "year">>))
            => rc.nextDate = <<2025, 2, 28>>
       /\ (a = <<2025, 1, 31>> /\ rc.rule = Rule(<<"every", "month">>))
            => rc.nextDate = <<2025, 2, 28>>

\* 'every month' anchored on 2025-01-31: the next date is 2025-02-28
C8_Witness ==
  /\ rc.phase = "done"
  /\ rc.anchor = <<2025, 1, 31>>
  /\ rc.rule = Rule(<<"every", "month">>)
  /\ rc.nextDate = <<2025, 2, 28>>


(***************************************************************************)
(* The parser and the serializer on their own: a line is parsed, rebuilt   *)
(* with buildTaskLine and parsed again.                                    *)
(***************************************************************************)
\* the pieces task bodies are put together from, in any order
BodyPieces ==
  { <<Word("Task")>>, <<Word("e-mail")>>, <<Tag("#work")>>,
    <<Prio("up")>>, <<Prio("up2")>>, <<Prio("mid")>>,
    <<Due(D1)>>, <<Sched(D3)>>, <<Start(D4)>>, <<Created(D0)>>, <<Done(D0)>>,
    <<RecTok>> \o Rule(<<"every", "week">>) }

RECURSIVE Bodies(_)
Bodies(n) ==
  IF n = 0 THEN {<<>>}
  ELSE Bodies(n - 1) \cup { b \o p : b \in Bodies(n - 1), p \in BodyPieces }

RoundTripLines ==
  {TextLine} \cup
  { Line("", "-", box, body) : box \in {" ", "x"}, body \in Bodies(MaxPieces) \ {<<>>} }

InitRT ==
  /\ \E line \in RoundTripLines :
       rt = [phase |-> "line", line |-> line, task |-> Null,
             rebuilt |-> TextLine, again |-> Null]
  /\ tz = 0
  /\ fs = [f \in {VaultFile} |-> <<>>]
  /\ pc = [c \in Callers |-> "idle"]
  /\ call = [c \in Callers |-> NoCall]
  /\ ncalls = 0
  /\ last = NoOutcome
  /\ rc = 0
  /\ qr = 0
  /\ ug = 0
  /\ hs = 0

RTParse ==
  /\ rt.phase = "line"
  /\ LET task == ParseTaskLine(rt.line, VaultFile, 1)
     IN rt' = [rt EXCEPT !.phase = IF task = Null THEN "rejected" ELSE "parsed",
                         !.task = task]
  /\ UNCHANGED <<fs, tz, pc, call, ncalls, last, rc, qr, ug, hs>>

RTBuild ==
  /\ rt.phase = "parsed"
  /\ rt' = [rt EXCEPT !.phase = "built", !.rebuilt = BuildTaskLine(rt.task)]
  /\ UNCHANGED <<fs, tz, pc, call, ncalls, last, rc, qr, ug, hs>>

RTReparse ==
  /\ rt.phase = "built"
  /\ rt' = [rt EXCEPT !.phase = "reparsed",
                      !.again = ParseTaskLine(rt.rebuilt, VaultFile, 1)]
  /\ UNCHANGED <<fs, tz, pc, call, ncalls, last, rc, qr, ug, hs>>

NextRT == RTParse \/ RTBuild \/ RTReparse

SpecRT == InitRT /\ [][NextRT]_vars

\* C9: for every line parseTaskLine accepts, parsing the line rebuilt by
\* buildTaskLine gives the same description, status, statusSymbol, tags,
\* dueDate, scheduledDate, startDate, createdDate, priority and recurrence,
\* whatever the order of the metadata tokens in the line.
C9_RoundTrip ==
  rt.phase = "reparsed" =>
    /\ rt.again # Null
    /\ rt.again.description = rt.task.description
    /\ rt.again.status = rt.task.status
    /\ rt.again.statusSymbol = rt.task.statusSymbol
    /\ rt.again.tags = rt.task.tags
    /\ rt.again.dueDate = rt.task.dueDate
    /\ rt.again.scheduledDate = rt.task.scheduledDate
    /\ rt.again.startDate = rt.task.startDate
    /\ rt.again.createdDate = rt.task.createdDate
    /\ rt.again.priority = rt.task.priority
    /\ rt.again.recurrence = rt.task.recurrence

\* positions of the tokens of kind k in a body
PositionsOf(body, k) == {i \in 1..Len(body) : body[i].k = k}

SerializedOrder == <<"prio", "rec", "start", "sched", "due">>

\* C10: in the body TaskSerializer.serialize returns for a parsed task the
\* priority, recurrence, start, scheduled and due markers each occur at most
\* once, and those that occur stand in this order.
C10_MarkersOnceInOrder ==
  rt.phase \in {"built", "reparsed"} =>
    LET body == rt.rebuilt.body
    IN /\ \A j \in 1..Len(SerializedOrder) :
            Cardinality(PositionsOf(body, SerializedOrder[j])) <= 1
       /\ \A j1, j2 \in 1..Len(SerializedOrder) :
            j1 < j2 =>
              \A i1 \in PositionsOf(body, SerializedOrder[j1]),
                 i2 \in PositionsOf(body, SerializedOrder[j2]) : i1 < i2


(***************************************************************************)
(* calculateUrgency                                                        *)
(*                                                                         *)
(* Scores are counted in units of 0.00001, the precision of the literals   *)
(* of the code: 12.0 is 1200000 and 1.95 is 195000.                        *)
(***************************************************************************)
\* faulty variant: the literals of daysDiff = 1 and daysDiff = 2 exchanged
DueLadderExchanged ==
  << 1154286, 1108571, 1062857, 1017143, 971429, 925714, 880000,
     788571, 834286, 742857, 697143, 651429, 605714, 560000,
     514286, 468571, 422857, 377143, 331429, 285714 >>

\* the literals of the due-date ladder for daysDiff = -6 .. 13
DueLadder ==
  << 1154286, 1108571, 1062857, 1017143, 971429, 925714, 880000,
     834286, 788571, 742857, 697143, 651429, 605714, 560000,
     514286, 468571, 422857, 377143, 331429, 285714 >>

\* moment(dateString).isValid()
MomentIsValid(ymd) == IsValidYMD(ymd)

\* faulty variant: whole calendar days between today and the due date
DueDaysDiffByCalendarDay(dueDate, now) ==
  DayNum(dueDate) - DayNum(FormatLocal(now))

\* dueDate.diff(today, 'days'): the time from now to the local midnight of
\* the due date in whole days, the fraction cut off towards zero
DueDaysDiff(dueDate, now) == DiffDays(MomentParse(dueDate), now)

DueScore(task, now) ==
  IF task.dueDate = NoDate \/ ~MomentIsValid(task.dueDate) THEN 0
  ELSE LET daysDiff == DueDaysDiff(task.dueDate, now)
       IN IF daysDiff <= -7 THEN 1200000
          ELSE IF daysDiff >= 14 THEN 240000
          ELSE DueLadder[daysDiff + 7]

\* faulty variant: a task without priority adds nothing
PriorityScoreNoDefault(priority) ==
  CASE priority = "highest" -> 900000
    [] priority = "high" -> 600000
    [] priority = "medium" -> 390000
    [] priority = "low" -> 0
    [] priority = "lowest" -> -180000
    [] OTHER -> 0

PriorityScore(priority) ==
  CASE priority = "highest" -> 900000
    [] priority = "high" -> 600000
    [] priority = "medium" -> 390000
    [] priority = "low" -> 0
    [] priority = "lowest" -> -180000
    [] OTHER -> 195000

\* date.isSameOrBefore(today, 'day'): not after the end of the local day of now
IsSameOrBeforeToday(ymd, now) == DayNum(ymd) <= DayNum(FormatLocal(now))

ScheduledScore(task, now) ==
  IF task.scheduledDate = NoDate \/ ~MomentIsValid(task.scheduledDate) THEN 0
  ELSE IF IsSameOrBeforeToday(task.scheduledDate, now) THEN 500000 ELSE 0

StartScore(task, now) ==
  IF task.startDate = NoDate \/ ~MomentIsValid(task.startDate) THEN 0
  ELSE IF IsSameOrBeforeToday(task.startDate, now) THEN 0 ELSE -300000

\* task needs the fields dueDate, scheduledDate, startDate and priority only
CalculateUrgency(task, now) ==
  DueScore(task, now) + PriorityScore(task.priority)
    + ScheduledScore(task, now) + StartScore(task, now)

(***************************************************************************)
(* calculateUrgency on its own: dates around today, every priority, at     *)
(* several hours of the day and in several time zones.                     *)
(***************************************************************************)
Priorities == {"none", "highest", "high", "medium", "low", "lowest"}

\* a date string the date regexes accept and moment rejects
BadDate == <<2025, 2, 30>>

UrgencyToday == D1

UrgencyDueDates ==
  {NoDate, BadDate} \cup { YMD(DayNum(UrgencyToday) + k) : k \in -9..16 }

UrgencyOtherDates ==
  {NoDate, BadDate, YMD(DayNum(UrgencyToday) - 1), YMD(DayNum(UrgencyToday) + 2)}

\* instants of the UTC day UrgencyToday and of the days next to it
UrgencyClock == { DayNum(UrgencyToday) * 24 + h : h \in {0, 10, 23} }

DatedTask(due, sched, start, priority) ==
  [dueDate |-> due, scheduledDate |-> sched, startDate |-> start, priority |-> priority]

InitUrg ==
  /\ tz \in TimeZones
  /\ \E due \in UrgencyDueDates, sched \in UrgencyOtherDates,
        start \in UrgencyOtherDates, priority \in Priorities, now \in UrgencyClock :
       ug = [phase |-> "task", task |-> DatedTask(due, sched, start, priority),
             now |-> now, urgency |-> 0]
  /\ fs = [f \in {VaultFile} |-> <<>>]
  /\ pc = [c \in Callers |-> "idle"]
  /\ call = [c \in Callers |-> NoCall]
  /\ ncalls = 0
  /\ last = NoOutcome
  /\ rt = 0
  /\ rc = 0
  /\ qr = 0
  /\ hs = 0

UrgScore ==
  /\ ug.phase = "task"
  /\ ug' = [ug EXCEPT !.phase = "scored",
                      !.urgency = CalculateUrgency(ug.task, ug.now)]
  /\ UNCHANGED <<fs, tz, pc, call, ncalls, last, rt, rc, qr, hs>>

NextUrg == UrgScore

SpecUrg == InitUrg /\ [][NextUrg]_vars

\* the priority component as the documentation gives it
PriorityComponent(priority) ==
  CASE priority = "highest" -> 900000
    [] priority = "high" -> 600000
    [] priority = "medium" -> 390000
    [] priority = "low" -> 0
    [] priority = "lowest" -> -180000
    [] priority = "none" -> 195000

\* the score of a task holding one field only, next to a priority that adds 0
OnlyDue(task) == DatedTask(task.dueDate, NoDate, NoDate, "low")
OnlyScheduled(task) == DatedTask(NoDate, task.scheduledDate, NoDate, "low")
OnlyStart(task) == DatedTask(NoDate, NoDate, task.startDate, "low")

Unusable(ymd) == ymd = NoDate \/ ~IsValidYMD(ymd)

\* C16: the urgency is the sum of four components that do not depend on one
\* another: the score of the due date alone, of the scheduled date alone, of
\* the start date alone, and the priority component (highest 9.0, high 6.0,
\* medium 3.9, low 0.0, lowest -1.8, none 1.95).  A task with no dates and no
\* priority scores 1.95, and an absent or unparseable date contributes 0.
C16_UrgencyIsSumOfComponents ==
  ug.phase = "scored" =>
    LET t == ug.task
        due == CalculateUrgency(OnlyDue(t), ug.now)
        sched == CalculateUrgency(OnlyScheduled(t), ug.now)
        start == CalculateUrgency(OnlyStart(t), ug.now)
    IN /\ ug.urgency = due + PriorityComponent(t.priority) + sched + start
       /\ Unusable(t.dueDate) => due = 0
       /\ Unusable(t.scheduledDate) => sched = 0
       /\ Unusable(t.startDate) => start = 0
       /\ (Unusable(t.dueDate) /\ Unusable(t.scheduledDate) /\ Unusable(t.startDate)
             /\ t.priority = "none") => ug.urgency = 195000

C16_Witness ==
  /\ ug.phase = "scored"
  /\ ug.task.priority = "medium"
  /\ ~Unusable(ug.task.dueDate)
  /\ ug.task.scheduledDate = BadDate
  /\ ~Unusable(ug.task.startDate)
  /\ ug.urgency # 195000

\* 8.8 - d * (9.6 / 21) rounded to 5 decimals, in units of 0.00001
DueFormula(d) == (2 * (880000 * 21 - d * 960000) + 21) \div 42

\* the due component by the number d of calendar days from today to the due date
DueComponent(d) ==
  IF d <= -7 THEN 1200000
  ELSE IF d >= 14 THEN 240000
  ELSE IF d = 0 THEN 880000
  ELSE DueFormula(d)

\* C17: the due component depends only on the number d of calendar days from
\* the local today to the due date, at any hour of the day: 12.0 for d <= -7,
\* 8.8 for d = 0, 8.8 - d * (9.6 / 21) rounded to 5 decimals for -7 < d < 14,
\* 2.4 for d >= 14; a task due tomorrow scores 8.34286.
C17_DueComponentByCalendarDay ==
  (ug.phase = "scored" /\ ~Unusable(ug.task.dueDate)) =>
    LET d == DayNum(ug.task.dueDate) - DayNum(FormatLocal(ug.now))
        rest == CalculateUrgency([ug.task EXCEPT !.dueDate = NoDate], ug.now)
    IN /\ ug.urgency - rest = DueComponent(d)
       /\ d = 1 => ug.urgency - rest = 834286


(***************************************************************************)
(* Strings of the query language.                                          *)
(*                                                                         *)
(* A string is the sequence of its characters, each a one-character        *)
(* string; the markers stand as the characters "<due>", "<sched>", ...     *)
(* Chars spells the words the model uses.                                  *)
(***************************************************************************)
Chars(w) ==
  CASE w = "not" -> <<"n", "o", "t">>
    [] w = "done" -> <<"d", "o", "n", "e">>
    [] w = "NOT" -> <<"N", "O", "T">>
    [] w = "AND" -> <<"A", "N", "D">>
    [] w = "OR" -> <<"O", "R">>
    [] w = "priority" -> <<"p", "r", "i", "o", "r", "i", "t", "y">>
    [] w = "is" -> <<"i", "s">>
    [] w = "high" -> <<"h", "i", "g", "h">>
    [] w = "medium" -> <<"m", "e", "d", "i", "u", "m">>
    [] w = "low" -> <<"l", "o", "w">>
    [] w = "lowest" -> <<"l", "o", "w", "e", "s", "t">>
    [] w = "highest" -> <<"h", "i", "g", "h", "e", "s", "t">>
    [] w = "none" -> <<"n", "o", "n", "e">>
    [] w = "urgent" -> <<"u", "r", "g", "e", "n", "t">>
    [] w = "tag" -> <<"t", "a", "g">>
    [] w = "include" -> <<"i", "n", "c", "l", "u", "d", "e">>
    [] w = "includes" -> <<"i", "n", "c", "l", "u", "d", "e", "s">>
    [] w = "do" -> <<"d", "o">>
    [] w = "has" -> <<"h", "a", "s">>
    [] w = "tags" -> <<"t", "a", "g", "s">>
    [] w = "no" -> <<"n", "o">>
    [] w = "due" -> <<"d", "u", "e">>
    [] w = "date" -> <<"d", "a", "t", "e">>
    [] w = "before" -> <<"b", "e", "f", "o", "r", "e">>
    [] w = "after" -> <<"a", "f", "t", "e", "r">>
    [] w = "today" -> <<"t", "o", "d", "a", "y">>
    [] w = "tomorrow" -> <<"t", "o", "m", "o", "r", "r", "o", "w">>
    [] w = "on" -> <<"o", "n">>
    [] w = "scheduled" -> <<"s", "c", "h", "e", "d", "u", "l", "e", "d">>
    [] w = "starts" -> <<"s", "t", "a", "r", "t", "s">>
    [] w = "start" -> <<"s", "t", "a", "r", "t">>
    [] w = "cancelled" -> <<"c", "a", "n", "c", "e", "l", "l", "e", "d">>
    [] w = "in" -> <<"i", "n">>
    [] w = "progress" -> <<"p", "r", "o", "g", "r", "e", "s", "s">>
    [] w = "path" -> <<"p", "a", "t", "h">>
    [] w = "description" -> <<"d", "e", "s", "c", "r", "i", "p", "t", "i", "o", "n">>
    [] w = "does" -> <<"d", "o", "e", "s">>
    [] w = "urgency" -> <<"u", "r", "g", "e", "n", "c", "y">>
    [] w = "above" -> <<"a", "b", "o", "v", "e">>
    [] w = "below" -> <<"b", "e", "l", "o", "w">>
    [] w = "sort" -> <<"s", "o", "r", "t">>
    [] w = "by" -> <<"b", "y">>
    [] w = "reverse" -> <<"r", "e", "v", "e", "r", "s", "e">>
    [] w = "abc" -> <<"a", "b", "c">>
    [] w = "Task" -> <<"T", "a", "s", "k">>
    [] w = "Review" -> <<"R", "e", "v", "i", "e", "w">>
    [] w = "Due" -> <<"D", "u", "e">>
    [] w = "review" -> <<"r", "e", "v", "i", "e", "w">>
    [] w = "task" -> <<"t", "a", "s", "k">>
    [] w = "notes" -> <<"n", "o", "t", "e", "s">>
    [] w = "notes.md" -> <<"n", "o", "t", "e", "s", ".", "m", "d">>
    [] w = "e-mail" -> <<"e", "-", "m", "a", "i", "l">>
    [] w = "#work" -> <<"#", "w", "o", "r", "k">>
    [] w = "#Work" -> <<"#", "W", "o", "r", "k">>
    [] w = "#homework" -> <<"#", "h", "o", "m", "e", "w", "o", "r", "k">>
    [] w = "work" -> <<"w", "o", "r", "k">>
    [] w = "Work" -> <<"W", "o", "r", "k">>
    [] w = "homework" -> <<"h", "o", "m", "e", "w", "o", "r", "k">>
    [] w = "2025-05-01" -> <<"2", "0", "2", "5", "-", "0", "5", "-", "0", "1">>
    [] w = "2025-08-05" -> <<"2", "0", "2", "5", "-", "0", "8", "-", "0", "5">>
    [] w = "2025-04-01" -> <<"2", "0", "2", "5", "-", "0", "4", "-", "0", "1">>
    [] w = "10" -> <<"1", "0">>
    [] w = "5" -> <<"5">>
    [] w = "1.95" -> <<"1", ".", "9", "5">>
    [] w = "8.8" -> <<"8", ".", "8">>
    [] w = "18" -> <<"1", "8">>
    [] w = "#" -> <<"#">>
    [] w = "comment" -> <<"c", "o", "m", "m", "e", "n", "t">>
    [] w = "Sort" -> <<"S", "o", "r", "t">>
    [] w = "Urgency" -> <<"U", "r", "g", "e", "n", "c", "y">>
    [] OTHER -> <<w>>

UpperLetters ==
  << "A", "B", "C", "D", "E", "F", "G", "H", "I", "J", "K", "L", "M",
     "N", "O", "P", "Q", "R", "S", "T", "U", "V", "W", "X", "Y", "Z" >>

LowerLetters ==
  << "a", "b", "c", "d", "e", "f", "g", "h", "i", "j", "k", "l", "m",
     "n", "o", "p", "q", "r", "s", "t", "u", "v", "w", "x", "y", "z" >>

LowerChar(c) ==
  IF \E i \in 1..Len(UpperLetters) : UpperLetters[i] = c
  THEN LowerLetters[CHOOSE i \in 1..Len(UpperLetters) : UpperLetters[i] = c]
  ELSE c

\* String.prototype.toLowerCase
ToLowerCase(str) == [i \in 1..Len(str) |-> LowerChar(str[i])]

\* the string of words separated by single spaces
RECURSIVE Str(_)
Str(words) ==
  IF words = <<>> THEN <<>>
  ELSE IF Len(words) = 1 THEN Chars(words[1])
  ELSE Chars(words[1]) \o <<" ">> \o Str(Tail(words))

\* String.prototype.trim
RECURSIVE TrimStr(_)
TrimStr(str) ==
  IF str = <<>> THEN str
  ELSE IF str[1] = " " THEN TrimStr(Tail(str))
  ELSE IF str[Len(str)] = " " THEN TrimStr(Front(str))
  ELSE str

\* String.prototype.startsWith
StartsWith(str, prefix) ==
  Len(str) >= Len(prefix) /\ SubSeq(str, 1, Len(prefix)) = prefix

\* String.prototype.indexOf, 1-based; 0 when sub does not occur
IndexOf(str, sub) ==
  LET hits == {i \in 1..(Len(str) - Len(sub) + 1) : SubSeq(str, i, i + Len(sub) - 1) = sub}
  IN IF hits = {} THEN 0 ELSE CHOOSE i \in hits : \A j \in hits : i <= j

\* String.prototype.includes
Includes(str, sub) == IndexOf(str, sub) # 0

\* String.prototype.substring(n), n counted from 0
Substring(str, n) == SubSeq(str, n + 1, Len(str))

\* String.prototype.split with a non-empty separator
RECURSIVE Split(_, _)
Split(str, sep) ==
  LET i == IndexOf(str, sep)
  IN IF i = 0 THEN <<str>>
     ELSE <<SubSeq(str, 1, i - 1)>> \o Split(Substring(str, i + Len(sep) - 1), sep)

\* str.replace(/^#/, '')
StripHash(str) == IF str # <<>> /\ str[1] = "#" THEN Tail(str) ELSE str

\* str.replace(/^["']|["']$/g, '')
StripQuotes(str) ==
  LET quotes == {"\"", "'"}
      a == IF str # <<>> /\ str[1] \in quotes THEN Tail(str) ELSE str
  IN IF a # <<>> /\ a[Len(a)] \in quotes THEN Front(a) ELSE a

IsDigitChar(c) == \E i \in 1..Len(Digits) : Digits[i] = c

DigitOf(c) == (CHOOSE i \in 1..Len(Digits) : Digits[i] = c) - 1

\* the value of a string of digits
RECURSIVE NumberOf(_)
NumberOf(str) ==
  IF str = <<>> THEN 0 ELSE NumberOf(Front(str)) * 10 + DigitOf(str[Len(str)])

\* \d{4}-\d{2}-\d{2}
IsDateText(str) ==
  /\ Len(str) = 10
  /\ \A i \in 1..10 : IF i \in {5, 8} THEN str[i] = "-" ELSE IsDigitChar(str[i])

DateOfText(str) ==
  <<NumberOf(SubSeq(str, 1, 4)), NumberOf(SubSeq(str, 6, 7)), NumberOf(SubSeq(str, 9, 10))>>

\* n >= 0 written with at least w digits
RECURSIVE Padded(_, _)
Padded(n, w) ==
  IF w <= 1 THEN NumStr(n)
  ELSE IF Len(NumStr(n)) >= w THEN NumStr(n)
  ELSE <<"0">> \o Padded(n, w - 1)

\* the text YYYY-MM-DD of a date
DateText(ymd) == Padded(ymd[1], 4) \o <<"-">> \o Padded(ymd[2], 2) \o <<"-">> \o Padded(ymd[3], 2)

\* a < b for two date strings YYYY-MM-DD compared as strings
DateTextLess(a, b) ==
  LET x == DateText(a)
      y == DateText(b)
  IN \E i \in 1..10 :
       /\ SubSeq(x, 1, i - 1) = SubSeq(y, 1, i - 1)
       /\ DigitOf(IF x[i] = "-" THEN "0" ELSE x[i]) < DigitOf(IF y[i] = "-" THEN "0" ELSE y[i])

\* the leading run of digits of str
RECURSIVE LeadingDigits(_)
LeadingDigits(str) ==
  IF str = <<>> \/ ~IsDigitChar(str[1]) THEN <<>>
  ELSE <<str[1]>> \o LeadingDigits(Tail(str))

\* the first five decimals of a string of digits, in units of 0.00001
FractionOf(digits) ==
  LET five == SubSeq(digits \o <<"0", "0", "0", "0", "0">>, 1, 5)
  IN NumberOf(five)

\* parseFloat: an optional sign, digits, an optional fraction; what follows
\* is ignored.  The value is in units of 0.00001; nan when no digit leads.
ParseFloat(str0) ==
  LET str == TrimStr(str0)
      negative == str # <<>> /\ str[1] = "-"
      unsigned == IF str # <<>> /\ str[1] \in {"-", "+"} THEN Tail(str) ELSE str
      whole == LeadingDigits(unsigned)
      rest == Substring(unsigned, Len(whole))
      fraction == IF rest # <<>> /\ rest[1] = "." THEN LeadingDigits(Tail(rest)) ELSE <<>>
      magnitude == NumberOf(whole) * 100000 + FractionOf(fraction)
  IN IF whole = <<>> /\ fraction = <<>> THEN [nan |-> TRUE, val |-> 0]
     ELSE [nan |-> FALSE, val |-> IF negative THEN -magnitude ELSE magnitude]

\* the characters of a token of a task line
TokenText(tok) ==
  CASE tok.k \in {"word", "tag"} -> Chars(tok.s)
    [] tok.k = "space" -> <<>>
    [] tok.k = "prio" -> IF tok.s = "up2" THEN <<"<up>", "<up>">> ELSE <<"<" \o tok.s \o ">">>
    [] tok.k = "rec" -> <<"<rec>">>
    [] OTHER -> <<"<" \o tok.k \o ">", " ">> \o DateText(tok.d)

\* the text of a token sequence, single spaces between the tokens
RECURSIVE BodyText(_)
BodyText(body) ==
  IF body = <<>> THEN <<>>
  ELSE IF Len(body) = 1 THEN TokenText(body[1])
  ELSE TokenText(body[1]) \o <<" ">> \o BodyText(Tail(body))

\* the text of a path given by its pieces
RECURSIVE PathText(_)
PathText(path) ==
  IF path = <<>> THEN <<>> ELSE Chars(path[1]) \o PathText(Tail(path))


(***************************************************************************)
(* parseTasks, applyFilter, parseQuery, applySorting, queryTasks           *)
(***************************************************************************)
\* parseTaskLine to its end: the task of ParseTaskLine with the urgency
\* calculateUrgency gives it at the time of parsing
ParseScoredTaskLine(line, filePath, lineNumber, now) ==
  LET task == ParseTaskLine(line, filePath, lineNumber)
  IN IF task = Null THEN Null
     ELSE [f \in DOMAIN task \cup {"urgency"} |->
             IF f = "urgency" THEN CalculateUrgency(task, now) ELSE task[f]]

\* the tasks of the lines from line number n on
RECURSIVE ParseTasksFrom(_, _, _, _)
ParseTasksFrom(lines, filePath, n, now) ==
  IF n > Len(lines) THEN <<>>
  ELSE LET task == ParseScoredTaskLine(lines[n], filePath, n, now)
       IN (IF task = Null THEN <<>> ELSE <<task>>)
            \o ParseTasksFrom(lines, filePath, n + 1, now)

\* faulty variant: line numbers counted from 0
ParseTasksZeroBased(lines, filePath, now) ==
  LET tasks == ParseTasksFrom(lines, filePath, 1, now)
  IN [i \in 1..Len(tasks) |->
        [tasks[i] EXCEPT !.lineNumber = @ - 1,
                         !.id = MakeId(filePath, tasks[i].lineNumber - 1)]]

ParseTasks(lines, filePath, now) == ParseTasksFrom(lines, filePath, 1, now)

RECURSIVE SkipSpaces(_)
SkipSpaces(str) == IF str # <<>> /\ str[1] = " " THEN SkipSpaces(Tail(str)) ELSE str

\* the date captured by /^<keyword>\s+<mid>\s+(\d{4}-\d{2}-\d{2})$/, or by
\* /^<keyword>\s+(?:<mid>\s+)?(\d{4}-\d{2}-\d{2})$/ when mid is optional;
\* NoDate when the filter does not match
MatchDateFilter(filter, keyword, mid, midOptional) ==
  IF ~StartsWith(filter, keyword) THEN NoDate
  ELSE LET r1 == Substring(filter, Len(keyword))
       IN IF r1 = <<>> \/ r1[1] # " " THEN NoDate
          ELSE LET r2 == SkipSpaces(r1)
                   r3 == Substring(r2, Len(mid))
                   r4 == SkipSpaces(r3)
               IN IF StartsWith(r2, mid) /\ r3 # <<>> /\ r3[1] = " " /\ IsDateText(r4)
                  THEN DateOfText(r4)
                  ELSE IF midOptional /\ IsDateText(r2) THEN DateOfText(r2)
                  ELSE NoDate

\* one of the three blocks of date filters: "T" or "F" when a form of the
\* block decides, "pass" when none does.  keyword is 'due', 'scheduled' or
\* 'starts', name is 'due', 'scheduled' or 'start', date the task's field.
DateFilter(date, filter, keyword, name, now) ==
  LET today == FormatLocal(now)
      Bool(b) == IF b THEN "T" ELSE "F"
      onDate == MatchDateFilter(filter, Chars(keyword), Chars("on"), TRUE)
      beforeDate == MatchDateFilter(filter, Chars(keyword), Chars("before"), FALSE)
      afterDate == MatchDateFilter(filter, Chars(keyword), Chars("after"), FALSE)
  IN IF ~(StartsWith(filter, Chars(keyword))
            \/ filter = Str(<<"has", name, "date">>)
            \/ filter = Str(<<"no", name, "date">>))
     THEN "pass"
     ELSE IF filter = Str(<<keyword, "today">>) THEN Bool(date = today)
     ELSE IF filter = Str(<<keyword, "before", "today">>)
          THEN Bool(date # NoDate /\ DateTextLess(date, today))
     ELSE IF filter = Str(<<keyword, "after", "today">>)
          THEN Bool(date # NoDate /\ DateTextLess(today, date))
     ELSE IF filter = Str(<<"no", name, "date">>) THEN Bool(date = NoDate)
     ELSE IF filter = Str(<<"has", name, "date">>) THEN Bool(date # NoDate)
     ELSE IF onDate # NoDate THEN Bool(date = onDate)
     ELSE IF beforeDate # NoDate THEN Bool(date # NoDate /\ DateTextLess(date, beforeDate))
     ELSE IF afterDate # NoDate THEN Bool(date # NoDate /\ DateTextLess(afterDate, date))
     ELSE "pass"

\* faulty variant: a line no form recognises matches nothing
DescriptionIncludesNothing(task, filter) == FALSE

\* the last return of applyFilter
DescriptionIncludes(task, filter) ==
  Includes(ToLowerCase(BodyText(task.description)), filter)

\* applyFilter from the tag filters to its end: filter is trimmed lower case
ApplyTextFilter(task, filter, now) ==
  LET TagSome(P(_)) == \E i \in 1..Len(task.tags) : P(Chars(task.tags[i]))
      priority == TrimStr(Split(filter, Str(<<"priority", "is">>))[2])
      above == ParseFloat(TrimStr(Split(filter, Str(<<"urgency", "above">>))[2]))
      below == ParseFloat(TrimStr(Split(filter, Str(<<"urgency", "below">>))[2]))
      value == ParseFloat(TrimStr(Split(filter, Str(<<"urgency", "is">>))[2]))
      distance == IF task.urgency >= value.val THEN task.urgency - value.val
                  ELSE value.val - task.urgency
  IN IF filter = Str(<<"no", "tags">>) THEN Len(task.tags) = 0
     ELSE IF filter = Str(<<"has", "tags">>) THEN Len(task.tags) > 0
     ELSE IF StartsWith(filter, Str(<<"tag", "includes">>) \o <<" ">>)
     THEN LET tagToFind ==
                StripHash(TrimStr(Split(filter, Str(<<"tag", "includes">>) \o <<" ">>)[2]))
              Has(tag) == Includes(StripHash(tag), tagToFind)
          IN TagSome(Has)
     ELSE IF StartsWith(filter, Str(<<"has", "tag">>) \o <<" ">>)
     THEN LET tagToFind == StripHash(TrimStr(Substring(filter, 8)))
              Is(tag) == StripHash(tag) = tagToFind
          IN TagSome(Is)
     ELSE IF StartsWith(filter, Str(<<"path", "includes">>))
     THEN Includes(ToLowerCase(PathText(task.filePath)),
                   ToLowerCase(StripQuotes(TrimStr(Split(filter, Chars("includes"))[2]))))
     ELSE IF StartsWith(filter, Str(<<"path", "does", "not", "include">>))
     THEN ~Includes(ToLowerCase(PathText(task.filePath)),
                    ToLowerCase(StripQuotes(TrimStr(
                      Split(filter, Str(<<"does", "not", "include">>))[2]))))
     ELSE IF StartsWith(filter, Str(<<"description", "includes">>))
     THEN Includes(ToLowerCase(BodyText(task.description)),
                   ToLowerCase(TrimStr(Split(filter, Chars("includes"))[2])))
     ELSE IF StartsWith(filter, Str(<<"description", "does", "not", "include">>))
     THEN ~Includes(ToLowerCase(BodyText(task.description)),
                    ToLowerCase(TrimStr(Split(filter, Str(<<"does", "not", "include">>))[2])))
     ELSE IF StartsWith(filter, Str(<<"priority", "is">>))
             /\ priority \in {Chars("highest"), Chars("high"), Chars("medium"),
                              Chars("low"), Chars("lowest"), Chars("none")}
     THEN Chars(task.priority) = priority
     ELSE IF StartsWith(filter, Str(<<"urgency", "above">>))
     THEN ~above.nan /\ task.urgency > above.val
     ELSE IF StartsWith(filter, Str(<<"urgency", "below">>))
     THEN ~below.nan /\ task.urgency < below.val
     ELSE IF StartsWith(filter, Str(<<"urgency", "is">>))
     THEN ~value.nan /\ distance < 100
     ELSE DescriptionIncludes(task, filter)

\* faulty variant: the upper-case operator is not told from lower case
StartsWithNotNever(originalFilter) == FALSE

\* originalFilter.startsWith('NOT ')
StartsWithNot(originalFilter) == StartsWith(originalFilter, Chars("NOT") \o <<" ">>)

RECURSIVE ApplyFilter(_, _, _)
ApplyFilter(task, filter0, now) ==
  LET originalFilter == TrimStr(filter0)
      filter == TrimStr(ToLowerCase(filter0))
      and == <<" ">> \o Chars("AND") \o <<" ">>
      or == <<" ">> \o Chars("OR") \o <<" ">>
      due == DateFilter(task.dueDate, filter, "due", "due", now)
      scheduled == DateFilter(task.scheduledDate, filter, "scheduled", "scheduled", now)
      starts == DateFilter(task.startDate, filter, "starts", "start", now)
  IN IF Includes(originalFilter, and)
     THEN \A i \in 1..Len(Split(originalFilter, and)) :
            ApplyFilter(task, TrimStr(Split(originalFilter, and)[i]), now)
     ELSE IF Includes(originalFilter, or)
     THEN \E i \in 1..Len(Split(originalFilter, or)) :
            ApplyFilter(task, TrimStr(Split(originalFilter, or)[i]), now)
     ELSE IF StartsWithNot(originalFilter)
     THEN ~ApplyFilter(task, Substring(originalFilter, 4), now)
     ELSE IF filter = Str(<<"not", "done">>)
     THEN task.status = "incomplete" \/ task.status = "in_progress"
     ELSE IF filter = Chars("done") THEN task.status = "complete"
     ELSE IF StartsWith(filter, Chars("not") \o <<" ">>)
     THEN ~ApplyFilter(task, Substring(filter, 4), now)
     ELSE IF filter = Chars("cancelled") THEN task.status = "cancelled"
     ELSE IF filter = Str(<<"in", "progress">>) THEN task.status = "in_progress"
     ELSE IF due # "pass" THEN due = "T"
     ELSE IF scheduled # "pass" THEN scheduled = "T"
     ELSE IF starts # "pass" THEN starts = "T"
     ELSE ApplyTextFilter(task, filter, now)

\* the lines of a query that count: trimmed, not empty, not a comment
RECURSIVE QueryLines(_)
QueryLines(queryText) ==
  IF queryText = <<>> THEN <<>>
  ELSE LET line == TrimStr(queryText[1])
       IN (IF line # <<>> /\ ~StartsWith(line, <<"#">>) THEN <<line>> ELSE <<>>)
            \o QueryLines(Tail(queryText))

IsSortCommand(line) == StartsWith(ToLowerCase(line), Str(<<"sort", "by">>))

\* queryText is the sequence of the lines of the query text
ParseQuery(queryText) ==
  [ filters |-> SelectSeq(QueryLines(queryText), LAMBDA line : ~IsSortCommand(line)),
    sortCommands |-> SelectSeq(QueryLines(queryText), IsSortCommand) ]

\* x put into a list already in order, behind the entries that do not come
\* after it: Array.prototype.sort is stable
InsertByUrgency(sorted, x, reverse) ==
  LET NotAfter(e) == IF reverse THEN e.urgency <= x.urgency ELSE e.urgency >= x.urgency
      n == Cardinality({i \in 1..Len(sorted) : NotAfter(sorted[i])})
  IN SubSeq(sorted, 1, n) \o <<x>> \o SubSeq(sorted, n + 1, Len(sorted))

\* tasks.sort by urgency, descending or (reverse) ascending
RECURSIVE SortByUrgency(_, _)
SortByUrgency(tasks, reverse) ==
  IF tasks = <<>> THEN <<>>
  ELSE InsertByUrgency(SortByUrgency(Front(tasks), reverse), tasks[Len(tasks)], reverse)

\* the loop of applySorting from command i down to the first
RECURSIVE ApplySortCommands(_, _, _)
ApplySortCommands(tasks, sortCommands, i) ==
  IF i = 0 THEN tasks
  ELSE LET command == TrimStr(ToLowerCase(sortCommands[i]))
           sorted == IF command = Str(<<"sort", "by", "urgency">>)
                        \/ command = Str(<<"sort", "by", "urgency", "reverse">>)
                     THEN SortByUrgency(tasks, Includes(command, Chars("reverse")))
                     ELSE tasks
       IN ApplySortCommands(sorted, sortCommands, i - 1)

ApplySorting(tasks, sortCommands) ==
  IF Len(sortCommands) = 0 THEN SortByUrgency(tasks, FALSE)
  ELSE ApplySortCommands(tasks, sortCommands, Len(sortCommands))

\* faulty variant: a task passes when one filter line accepts it
PassesSomeFilter(task, filters, now) ==
  \E i \in 1..Len(filters) : ApplyFilter(task, filters[i], now)

\* the callback of tasks.filter in queryTasks
PassesFilters(task, filters, now) ==
  \A i \in 1..Len(filters) : ApplyFilter(task, filters[i], now)

QueryTasks(tasks, queryText, now) ==
  LET query == ParseQuery(queryText)
      Passes(task) == PassesFilters(task, query.filters, now)
  IN ApplySorting(SelectSeq(tasks, Passes), query.sortCommands)


(***************************************************************************)
(* The query engine on its own: a document is parsed at some time and a    *)
(* query is run against its tasks.                                         *)
(***************************************************************************)
QueryDocLines ==
  { TextLine,
    Line("", "-", " ", <<Word("Task"), Prio("up"), Tag("#work"), Due(<<2025, 4, 1>>)>>),
    Line("", "-", "x", <<Word("Task"), Prio("down")>>),
    Line("", "-", "-", <<Word("Task"), Prio("up")>>),
    Line("", "-", "/", <<Word("Review"), Tag("#Work"), Due(D1)>>),
    Line("", "-", "?", <<Word("Task"), Tag("#work")>>),
    Line("", "-", " ", <<Word("Due"), Word("tomorrow"), Tag("#homework"), Prio("mid"),
                         Sched(D3), Start(D4)>>),
    Line("", "-", " ", <<Word("urgency"), Word("above"), Word("abc")>>) }

RECURSIVE QueryDocuments(_)
QueryDocuments(n) ==
  IF n = 0 THEN {<<>>}
  ELSE QueryDocuments(n - 1)
         \cup { Append(doc, line) : doc \in QueryDocuments(n - 1), line \in QueryDocLines }

\* queries as the lists of the words of their lines
QueryWords ==
  { <<>>,
    << <<"not", "done">> >>,
    << <<"NOT", "done">> >>,
    << <<"done">> >>,
    << <<"cancelled">> >>,
    << <<"in", "progress">> >>,
    << <<"not", "done">>, <<"priority", "is", "high">> >>,
    << <<"priority", "is", "high">> >>,
    << <<"priority", "is", "none">> >>,
    << <<"priority", "is", "urgent">> >>,
    << <<"priority", "is", "high", "OR", "priority", "is", "medium">> >>,
    << <<"not", "done", "AND", "has", "tags">> >>,
    << <<"not", "done">>, <<"due", "before", "2025-05-01">>, <<"tag", "include", "#work">> >>,
    << <<"tag", "include", "#work">> >>,
    << <<"tag", "do", "not", "include", "#work">> >>,
    << <<"tag", "includes", "#work">> >>,
    << <<"tag", "includes", "#Work">> >>,
    << <<"has", "tag", "#work">> >>,
    << <<"has", "tag", "#Work">> >>,
    << <<"has", "tags">> >>,
    << <<"no", "tags">> >>,
    << <<"no", "due", "date">> >>,
    << <<"has", "due", "date">> >>,
    << <<"due", "today">> >>,
    << <<"due", "before", "today">> >>,
    << <<"due", "on", "2025-08-05">> >>,
    << <<"due", "after", "2025-05-01">> >>,
    << <<"due", "tomorrow">> >>,
    << <<"Due", "tomorrow">> >>,
    << <<"has", "scheduled", "date">> >>,
    << <<"scheduled", "before", "2025-05-01">> >>,
    << <<"no", "start", "date">> >>,
    << <<"starts", "before", "today">> >>,
    << <<"path", "includes", "notes">> >>,
    << <<"path", "does", "not", "include", "notes">> >>,
    << <<"description", "includes", "review">> >>,
    << <<"description", "does", "not", "include", "task">> >>,
    << <<"urgency", "above", "abc">> >>,
    << <<"urgency", "above", "10">> >>,
    << <<"urgency", "below", "5">> >>,
    << <<"urgency", "is", "1.95">> >>,
    << <<"review">> >>,
    << <<"sort", "by", "urgency">> >>,
    << <<"sort", "by", "urgency", "reverse">> >>,
    << <<"Sort", "by", "Urgency", "reverse">>, <<"not", "done">> >>,
    << <<"sort", "by", "due", "date">> >>,
    << <<"sort", "by", "urgency">>, <<"sort", "by", "urgency", "reverse">> >>,
    << <<"#", "comment">>, <<"done">> >>,
    << <<"done">>, <<>>, <<"has", "tags">> >> }

\* the lines of a query, each with a blank before and after it
QueryText(words) == [i \in 1..Len(words) |-> <<" ">> \o Str(words[i]) \o <<" ">>]

Queries == { QueryText(words) : words \in QueryWords }

\* the query of one line
OneLine(words) == QueryText(<<words>>)

QueryPath == <<"notes.md">>

InitQuery ==
  /\ tz \in TimeZones
  /\ \E doc \in QueryDocuments(MaxFileLen), query \in Queries, now \in NowPool :
       qr = [phase |-> "document", now |-> now, doc |-> doc, tasks |-> <<>>,
             query |-> query, result |-> <<>>]
  /\ fs = [f \in {VaultFile} |-> <<>>]
  /\ pc = [c \in Callers |-> "idle"]
  /\ call = [c \in Callers |-> NoCall]
  /\ ncalls = 0
  /\ last = NoOutcome
  /\ rt = 0
  /\ rc = 0
  /\ ug = 0
  /\ hs = 0

\* findAllTasks on the one document
QParse ==
  /\ qr.phase = "document"
  /\ qr' = [qr EXCEPT !.phase = "tasks", !.tasks = ParseTasks(qr.doc, QueryPath, qr.now)]
  /\ UNCHANGED <<fs, tz, pc, call, ncalls, last, rt, rc, ug, hs>>

QRun ==
  /\ qr.phase = "tasks"
  /\ qr' = [qr EXCEPT !.phase = "done", !.result = QueryTasks(qr.tasks, qr.query, qr.now)]
  /\ UNCHANGED <<fs, tz, pc, call, ncalls, last, rt, rc, ug, hs>>

NextQuery == QParse \/ QRun

SpecQuery == InitQuery /\ [][NextQuery]_vars

Range(s) == {s[i] : i \in 1..Len(s)}

Active(task) == task.status \in {"incomplete", "in_progress"}

\* the lines of the query that are neither blank, nor comments, nor sort lines
FilterLinesOf(query) ==
  { TrimStr(query[i]) : i \in { j \in 1..Len(query) :
      /\ TrimStr(query[j]) # <<>>
      /\ TrimStr(query[j])[1] # "#"
      /\ ~StartsWith(ToLowerCase(TrimStr(query[j])), Str(<<"sort", "by">>)) } }

C12_NotDoneSameAsLowerCase ==
  (qr.phase = "done" /\ qr.query = OneLine(<<"NOT", "done">>)) =>
    /\ qr.result = QueryTasks(qr.tasks, OneLine(<<"not", "done">>), qr.now)
    /\ Range(qr.result) = { t \in Range(qr.tasks) : Active(t) }

\* C12 amended: 'NOT done' negates 'done': it returns the tasks whose status
\* is not complete, that is the tasks 'not done' returns together with the
\* cancelled and non_task ones.
C12_NotDoneNegatesDone ==
  (qr.phase = "done" /\ qr.query = OneLine(<<"NOT", "done">>)) =>
    /\ Range(qr.result) = { t \in Range(qr.tasks) : t.status # "complete" }
    /\ Range(qr.result) =
         Range(QueryTasks(qr.tasks, OneLine(<<"not", "done">>), qr.now))
           \cup { t \in Range(qr.tasks) : t.status \in {"cancelled", "non_task"} }

C12_Witness ==
  /\ qr.phase = "done"
  /\ qr.query = OneLine(<<"NOT", "done">>)
  /\ \E t \in Range(qr.result) : t.status = "cancelled"
  /\ \E t \in Range(qr.tasks) : t.status = "complete"

SortLinesOf(query) ==
  { TrimStr(ToLowerCase(query[i])) : i \in { j \in 1..Len(query) :
      StartsWith(ToLowerCase(TrimStr(query[j])), Str(<<"sort", "by">>)) } }

\* C13: the result is in order of non-increasing urgency, or of
\* non-decreasing urgency when the query asks for 'sort by urgency reverse',
\* whatever other sort lines the query holds.
C13_ResultOrderedByUrgency ==
  qr.phase = "done" =>
    \A i \in 1..(Len(qr.result) - 1) :
      IF Str(<<"sort", "by", "urgency", "reverse">>) \in SortLinesOf(qr.query)
      THEN qr.result[i].urgency <= qr.result[i + 1].urgency
      ELSE qr.result[i].urgency >= qr.result[i + 1].urgency

HasTagWith(task, text) ==
  \E i \in 1..Len(task.tags) : Includes(Chars(task.tags[i]), text)

\* C14: 'tag include #X' returns exactly the tasks with a tag containing X,
\* 'tag do not include #X' exactly the tasks without one, and the example
\* query 'not done' / 'due before 2025-05-01' / 'tag include #work' the
\* active tasks due before 2025-05-01 that carry the tag.
C14_TagIncludeForm ==
  qr.phase = "done" =>
    /\ qr.query = OneLine(<<"tag", "include", "#work">>) =>
         Range(qr.result) = { t \in Range(qr.tasks) : HasTagWith(t, Chars("work")) }
    /\ qr.query = OneLine(<<"tag", "do", "not", "include", "#work">>) =>
         Range(qr.result) = { t \in Range(qr.tasks) : ~HasTagWith(t, Chars("work")) }
    /\ qr.query = QueryText(<< <<"not", "done">>, <<"due", "before", "2025-05-01">>,
                               <<"tag", "include", "#work">> >>) =>
         Range(qr.result) =
           { t \in Range(qr.tasks) :
               /\ Active(t)
               /\ t.dueDate # NoDate /\ DateTextLess(t.dueDate, <<2025, 5, 1>>)
               /\ HasTagWith(t, Chars("work")) }

\* lines that complete no predicate form
UnrecognisedLines ==
  { <<"due", "tomorrow">>, <<"Due", "tomorrow">>, <<"priority", "is", "urgent">>,
    <<"tag", "include", "#work">>, <<"review">> }

\* urgency lines whose argument is not a number
UrgencyWithoutNumber == { <<"urgency", "above", "abc">> }

ContainsLine(task, words) ==
  Includes(ToLowerCase(BodyText(task.description)), ToLowerCase(Str(words)))

PlainQueries ==
  { QueryText(<<>>), OneLine(<<"has", "tags">>), OneLine(<<"no", "due", "date">>),
    OneLine(<<"priority", "is", "none">>) }

\* C18: the empty query and the queries 'has tags', 'no due date' and
\* 'priority is none' return no entry whose status is non_task.
C18_NoNonTaskInResult ==
  (qr.phase = "done" /\ qr.query \in PlainQueries) =>
    \A t \in Range(qr.result) : t.status # "non_task"


(***************************************************************************)
(* The complete_task request handler (src/src/index.ts).  A path is a      *)
(* sequence of pieces: "/" is the separator, ".." the parent segment, any  *)
(* other piece a part of a segment's name ("vault" followed by "-evil" is  *)
(* the one segment vault-evil).                                            *)
(***************************************************************************)
\* path.isAbsolute
IsAbsolute(p) == p # <<>> /\ p[1] = "/"

\* the segments of a path: the runs of pieces between separators
RECURSIVE Segments(_)
Segments(p) ==
  IF p = <<>> THEN <<>>
  ELSE IF p[1] = "/" THEN Segments(Tail(p))
  ELSE LET i == IndexOf(p, <<"/">>)
       IN IF i = 0 THEN <<p>>
          ELSE <<SubSeq(p, 1, i - 1)>> \o Segments(Substring(p, i))

\* the path of a list of segments
RECURSIVE PathOf(_, _)
PathOf(abs, segs) ==
  IF segs = <<>> THEN (IF abs THEN <<"/">> ELSE <<>>)
  ELSE IF Len(segs) = 1 THEN (IF abs THEN <<"/">> ELSE <<>>) \o segs[1]
  ELSE PathOf(abs, Front(segs)) \o <<"/">> \o segs[Len(segs)]

\* the segments with every ".." applied to the segment before it; above the
\* root ".." is dropped, at the start of a relative path it is kept
RECURSIVE Collapse(_, _, _)
Collapse(segs, acc, abs) ==
  IF segs = <<>> THEN acc
  ELSE IF segs[1] = <<"..">>
  THEN IF acc # <<>> /\ acc[Len(acc)] # <<"..">>
       THEN Collapse(Tail(segs), Front(acc), abs)
       ELSE IF abs THEN Collapse(Tail(segs), acc, abs)
       ELSE Collapse(Tail(segs), Append(acc, <<"..">>), abs)
  ELSE Collapse(Tail(segs), Append(acc, segs[1]), abs)

\* path.normalize, for paths without a trailing separator
NormalizePath(p) == PathOf(IsAbsolute(p), Collapse(Segments(p), <<>>, IsAbsolute(p)))

\* path.join of two non-empty paths
PathJoin(a, b) == NormalizePath(a \o <<"/">> \o b)

\* path.resolve against the working directory of the process
PathResolve(cwd, p) ==
  IF IsAbsolute(p) THEN NormalizePath(p) ELSE NormalizePath(cwd \o <<"/">> \o p)

\* path.dirname of an absolute path
Dirname(p) == PathOf(TRUE, Front(Segments(p)))

\* the number of leading segments two lists share
RECURSIVE CommonSegments(_, _)
CommonSegments(f, t) ==
  IF f = <<>> \/ t = <<>> \/ f[1] # t[1] THEN 0
  ELSE 1 + CommonSegments(Tail(f), Tail(t))

\* path.relative between two absolute paths
PathRelative(from, to) ==
  LET f == Segments(NormalizePath(from))
      t == Segments(NormalizePath(to))
      k == CommonSegments(f, t)
  IN PathOf(FALSE, [i \in 1..(Len(f) - k) |-> <<"..">>] \o SubSeq(t, k + 1, Len(t)))

\* the vault directory the server was started with
VaultDirectory == <<"/", "vault">>

EvilDirectory == <<"/", "vault", "-evil">>

WorkDirectory == <<"/", "work">>

\* the directories of the machine
Directories == {<<"/">>, VaultDirectory, EvilDirectory, WorkDirectory}

\* the regular files of the machine
RealFiles ==
  { VaultDirectory \o <<"/", "notes.md">>,
    EvilDirectory \o <<"/", "notes.md">>,
    WorkDirectory \o <<"/", "notes.md">> }

\* the symbolic links of the vault: a file and a directory outside it
LinkedPaths == {VaultDirectory \o <<"/", "link.md">>, VaultDirectory \o <<"/", "linkdir">>}

SymLinks ==
  [ l \in LinkedPaths |->
      IF l = VaultDirectory \o <<"/", "link.md">>
      THEN WorkDirectory \o <<"/", "notes.md">>
      ELSE WorkDirectory ]

\* the segments of the file a path leads to, symbolic links followed
RECURSIVE RealpathFrom(_, _)
RealpathFrom(done, rest) ==
  IF rest = <<>> THEN done
  ELSE LET next == Append(done, rest[1])
       IN IF PathOf(TRUE, next) \in DOMAIN SymLinks
          THEN RealpathFrom(Segments(SymLinks[PathOf(TRUE, next)]), Tail(rest))
          ELSE RealpathFrom(next, Tail(rest))

\* fs.realpath of a normalized absolute path that exists
Realpath(p) == PathOf(TRUE, RealpathFrom(<<>>, Segments(p)))

\* fs.realpath does not throw
PathExists(p) == Realpath(p) \in DOMAIN fs \cup Directories

\* validateRelativePath does not throw
ValidateRelativePath(relativePath) == ~Includes(relativePath, <<"..">>)

PathDenied(why) == [ok |-> FALSE, why |-> why, path |-> <<>>]

PathAllowed(p) == [ok |-> TRUE, why |-> "", path |-> p]

\* resolvePath: a throw of the try block, the one of the symlink test
\* included, is caught and leads to the test of the parent directory
ResolvePath(relativePath, env) ==
  LET absolute == IF relativePath = <<>> THEN VaultDirectory
                  ELSE PathJoin(VaultDirectory, relativePath)
      parentDir == Dirname(absolute)
  IN IF ~ValidateRelativePath(relativePath) THEN PathDenied("traversal")
     ELSE IF env = "test" THEN PathAllowed(absolute)
     ELSE IF PathExists(absolute) /\ StartsWith(Realpath(absolute), VaultDirectory)
     THEN PathAllowed(Realpath(absolute))
     ELSE IF PathExists(parentDir) /\ StartsWith(Realpath(parentDir), VaultDirectory)
     THEN PathAllowed(absolute)
     ELSE PathDenied("parent")

\* the ids of complete_task requests
RequestIds ==
  { <<"notes.md", ":", "1">>,
    <<"link.md", ":", "1">>,
    <<"..", "/", "work", "/", "notes.md", ":", "1">>,
    VaultDirectory \o <<"/", "notes.md", ":", "1">>,
    VaultDirectory \o <<"/", "notes.md", ":", "2">>,
    VaultDirectory \o <<"/", "notes.md", ":", "x">>,
    VaultDirectory \o <<"/", "notes.md">>,
    VaultDirectory \o <<"/", "missing.md", ":", "1">>,
    VaultDirectory \o <<"/", "link.md", ":", "1">>,
    VaultDirectory \o <<"/", "linkdir", "/", "notes.md", ":", "1">>,
    VaultDirectory \o <<"/", "..", "/", "work", "/", "notes.md", ":", "1">>,
    EvilDirectory \o <<"/", "notes.md", ":", "1">>,
    WorkDirectory \o <<"/", "notes.md", ":", "1">> }

\* the documents of the files of the machine
PathDocuments == {<<PlainTask>>, <<TextLine, PlainTask>>}

\* NODE_ENV is 'test' or not
Environments == {"test", "production"}

InitPath ==
  /\ fs \in [RealFiles -> PathDocuments]
  /\ tz \in TimeZones
  /\ pc = [c \in Callers |-> "idle"]
  /\ call = [c \in Callers |-> NoCall]
  /\ ncalls = 0
  /\ last = NoOutcome
  /\ rt = 0
  /\ rc = 0
  /\ qr = 0
  /\ ug = 0
  /\ \E cwd \in {VaultDirectory, WorkDirectory}, env \in Environments :
       hs = [cwd |-> cwd, env |-> env, id |-> <<>>, relative |-> FALSE,
             error |-> "", checked |-> <<>>, opened |-> <<>>, wrote |-> FALSE,
             success |-> FALSE]

\* handleCompleteTaskRequest, the call of completeTask included: checked is
\* the path resolvePath accepted, opened the file readFile read (symbolic
\* links followed), wrote whether writeFile rewrote it
HandleCompleteTaskRequest ==
  /\ ncalls < MaxCalls
  /\ ncalls' = ncalls + 1
  /\ \E taskId \in RequestIds, now \in NowPool, lib \in LibOutcomes :
       LET lastColonIndex == LastIndexOf(taskId, ":")
           filePath == SubSeq(taskId, 1, lastColonIndex - 1)
           lineNumber == ParseInt(SubSeq(taskId, lastColonIndex + 1, Len(taskId)))
           outside == IsAbsolute(filePath)
                        /\ ~StartsWith(NormalizePath(filePath), VaultDirectory)
           relativePath == IF IsAbsolute(filePath)
                           THEN PathRelative(VaultDirectory, filePath)
                           ELSE filePath
           valid == ResolvePath(relativePath, hs.env)
           target == Realpath(PathResolve(hs.cwd, filePath))
           res == CompleteLines(fs[target], filePath, lineNumber.val, now, lib)
           request == [hs EXCEPT !.id = taskId, !.relative = ~IsAbsolute(filePath),
                                 !.error = "", !.checked = <<>>, !.opened = <<>>,
                                 !.wrote = FALSE, !.success = FALSE]
       IN IF lastColonIndex = 0
          THEN hs' = [request EXCEPT !.error = "invalid_id"] /\ UNCHANGED fs
          ELSE IF outside
          THEN hs' = [request EXCEPT !.error = "outside_vault"] /\ UNCHANGED fs
          ELSE IF ~valid.ok
          THEN hs' = [request EXCEPT !.error = valid.why] /\ UNCHANGED fs
          ELSE IF lineNumber.nan
          THEN /\ hs' = [request EXCEPT !.error = "invalid_line_number",
                                        !.checked = valid.path]
               /\ UNCHANGED fs
          ELSE IF target \notin DOMAIN fs
          THEN /\ hs' = [request EXCEPT !.error = "read_failed", !.checked = valid.path]
               /\ UNCHANGED fs
          ELSE /\ hs' = [request EXCEPT !.error = IF res.success THEN "" ELSE res.kind,
                                        !.checked = valid.path, !.opened = target,
                                        !.wrote = res.write, !.success = res.success]
               /\ fs' = IF res.write THEN [fs EXCEPT ![target] = res.lines] ELSE fs
  /\ UNCHANGED <<tz, pc, call, last, rt, rc, qr, ug>>

NextPath == HandleCompleteTaskRequest

SpecPath == InitPath /\ [][NextPath]_vars

\* the path lies in the directory tree of the vault
InsideVault(p) ==
  LET v == Segments(VaultDirectory)
      q == Segments(p)
  IN Len(q) >= Len(v) /\ SubSeq(q, 1, Len(v)) = v

\* C19: handleCompleteTaskRequest never reads or writes a file outside the
\* vault directory: the file completeTask opens, and rewrites, lies in the
\* directory tree of the vault, and for an id with a relative path it is the
\* file under the vault directory that the path validation checked.
C19_OnlyVaultFilesOpened ==
  hs.opened # <<>> =>
    /\ InsideVault(hs.opened)
    /\ hs.relative => hs.opened = hs.checked


(***************************************************************************)
(* Two callers: completeTask calls on one file interleave at the awaits    *)
(* of readFile and writeFile.                                              *)
(***************************************************************************)
\* the documents of the race: two lines or more
RaceDocuments ==
  {d \in InitialDocuments : Len(d) >= 2 /\ \A i \in 1..Len(d) : d[i] \in FillerLines}

InitRace ==
  /\ fs \in [{VaultFile} -> RaceDocuments]
  /\ tz \in TimeZones
  /\ pc = [c \in Callers |-> "idle"]
  /\ call = [c \in Callers |-> NoCall]
  /\ ncalls = 0
  /\ last = NoOutcome
  /\ rt = 0
  /\ rc = 0
  /\ qr = 0
  /\ ug = 0
  /\ hs = 0

NextRace == \E c \in Callers : Begin(c) \/ Commit(c)

SpecRace == InitRace /\ [][NextRace]_vars

\* another call wrote the file between the read and the write of the call
\* that finished last; a call writes only when it reports success
Overwrote == last.wrote /\ last.found # last.before

\* the first line the other call changed
OtherLine ==
  CHOOSE m \in 1..Len(last.before) :
    /\ last.found[m] # last.before[m]
    /\ \A i \in 1..(m - 1) : last.found[i] = last.before[i]

\* the position in the written document of line m of the document read
PositionAfter(m) == IF last.created /\ m > last.lineNumber THEN m + 1 ELSE m

\* C20: completeTask reads the whole file and writes the whole file back
\* without a lock: when a call on one task line reads the file, another call
\* completes a different line and writes, and the first call then writes,
\* both report success and the file holds the last writer's document only:
\* the line the other call completed is back to the text it had before.
C20_LastWriterWins ==
  (last.found # last.before /\ LastInRange /\ LastTask # Null
     /\ LastTask.status \notin RefusedStatuses /\ OtherLine # last.lineNumber) =>
    /\ last.success
    /\ last.wrote
    /\ fs[VaultFile] = last.after
    /\ fs[VaultFile][PositionAfter(OtherLine)] = last.before[OtherLine]
    /\ fs[VaultFile][PositionAfter(OtherLine)] # last.found[OtherLine]

\* two calls on different lines interleaved and the later one wrote
C20_Witness ==
  Overwrote /\ last.success /\ OtherLine # last.lineNumber
    /\ last.found[OtherLine].box = "x" /\ fs[VaultFile][PositionAfter(OtherLine)].box = " "


(***************************************************************************)
(* Listing and completing: a client lists the tasks of a file and then     *)
(* calls completeTask with the ids of the listing.                         *)
(***************************************************************************)
\* the paths of the listed file: one of them holds a ':'
IdPaths == {VaultFile, <<"C", ":", "notes.md">>}

ListedPath == CHOOSE p \in DOMAIN fs : TRUE

NoListing ==
  [listed |-> FALSE, path |-> <<>>, doc |-> <<>>, tasks |-> <<>>,
   id |-> <<>>, filePath |-> <<>>, lineNumber |-> 0, completed |-> 0]

InitIds ==
  /\ \E p \in IdPaths : fs \in [{p} -> InitialDocuments]
  /\ tz \in TimeZones
  /\ pc = [c \in Callers |-> "idle"]
  /\ call = [c \in Callers |-> NoCall]
  /\ ncalls = 0
  /\ last = NoOutcome
  /\ rt = 0
  /\ rc = 0
  /\ qr = NoListing
  /\ ug = 0
  /\ hs = 0

\* extractTasksFromFile: readFile and parseTasks(content, filePath)
ListTasks ==
  /\ ~qr.listed
  /\ \E now \in NowPool :
       qr' = [NoListing EXCEPT !.listed = TRUE, !.path = ListedPath,
                               !.doc = fs[ListedPath],
                               !.tasks = ParseTasks(fs[ListedPath], ListedPath, now)]
  /\ UNCHANGED <<fs, tz, pc, call, ncalls, last, rt, rc, ug, hs>>

\* completeTask(t.id) for a task t of the listing; qr keeps the path and
\* the line number the id was split into and the number of calls that
\* succeeded since the listing
CompleteListed ==
  /\ qr.listed
  /\ ncalls < MaxCalls
  /\ ncalls' = ncalls + 1
  /\ \E i \in 1..Len(qr.tasks), now \in NowPool, lib \in LibOutcomes :
       LET id == qr.tasks[i].id
           lastColonIndex == LastIndexOf(id, ":")
           filePath == SubSeq(id, 1, lastColonIndex - 1)
           lineNumber == ParseInt(SubSeq(id, lastColonIndex + 1, Len(id)))
           res == CompleteLines(fs[filePath], filePath, lineNumber.val, now, lib)
       IN IF lastColonIndex = 0 \/ lineNumber.nan \/ filePath \notin DOMAIN fs
          THEN /\ last' = [Outcome("c1", id, 0, NoDate, "", Failure("invalid_id", <<>>),
                                   <<>>, <<>>) EXCEPT !.seq = ncalls + 1]
               /\ qr' = [qr EXCEPT !.id = id, !.filePath = filePath, !.lineNumber = 0]
               /\ UNCHANGED fs
          ELSE /\ last' = [Outcome("c1", id, lineNumber.val, FormatLocal(now), lib, res,
                                   fs[filePath], fs[filePath]) EXCEPT !.seq = ncalls + 1]
               /\ qr' = [qr EXCEPT !.id = id, !.filePath = filePath,
                                   !.lineNumber = lineNumber.val,
                                   !.completed = IF res.success THEN @ + 1 ELSE @]
               /\ fs' = IF res.write THEN [fs EXCEPT ![filePath] = res.lines] ELSE fs
  /\ UNCHANGED <<tz, pc, call, rt, rc, ug, hs>>

NextIds == ListTasks \/ CompleteListed

SpecIds == InitIds /\ [][NextIds]_vars

\* the task of the listing that has the id
ListedTask(id) == CHOOSE t \in Range(qr.tasks) : t.id = id

\* C21: every task t of parseTasks(text, path) has the 1-based index of its
\* line as lineNumber and path + ':' + lineNumber as id, the tasks come in
\* increasing line order with the lines that are no tasks left out, and
\* completeTask(t.id) on the unchanged file splits the id into the same path
\* and line number (also when the path holds a ':') and acts on the line
\* whose text is t.originalMarkdown.
C21_IdsDesignateLines ==
  /\ \A i \in 1..Len(qr.tasks) :
       LET t == qr.tasks[i]
       IN /\ t.lineNumber \in 1..Len(qr.doc)
          /\ qr.doc[t.lineNumber] = t.originalMarkdown
          /\ t.id = qr.path \o <<":">> \o NumStr(t.lineNumber)
          /\ i > 1 => qr.tasks[i - 1].lineNumber < t.lineNumber
  /\ qr.listed =>
       \A n \in 1..Len(qr.doc) :
         TaskRegexMatches(qr.doc[n]) <=> \E t \in Range(qr.tasks) : t.lineNumber = n
  /\ (qr.id # <<>> /\ last.found = qr.doc) =>
       /\ qr.filePath = ListedTask(qr.id).filePath
       /\ qr.filePath = qr.path
       /\ qr.lineNumber = ListedTask(qr.id).lineNumber
       /\ last.before[qr.lineNumber] = ListedTask(qr.id).originalMarkdown
       /\ last.success => /\ last.after[qr.lineNumber].box = "x"
                          /\ last.after[qr.lineNumber].marker =
                               ListedTask(qr.id).originalMarkdown.marker

\* the second task of a file whose path holds a ':' was completed by its id
C21_Witness ==
  /\ qr.id # <<>> /\ last.found = qr.doc /\ last.success
  /\ Includes(qr.path, <<":">>) /\ qr.lineNumber = 2
  /\ \E t \in Range(qr.tasks) : t.lineNumber = 1

\* C30: ids stay valid across completions: after completeTask succeeded on
\* one task of a file, a completeTask call with an id listed before that
\* call for another task of the file completes the task the id was listed
\* for and no other.
C30_IdsStayValid ==
  (qr.id # <<>> /\ last.success /\ qr.completed >= 2) =>
    last.before[qr.lineNumber] = ListedTask(qr.id).originalMarkdown


(***************************************************************************)
(* Further claims about calculateNextOccurrence, checked under SpecRec.    *)
(***************************************************************************)
\* C22: every next date calculateNextOccurrence computes is strictly later
\* than its anchor date, and in original-date mode the primary date of the
\* successor is strictly later than the primary date of the original; for
\* every simple rule 'every N day(s)|week(s)|month(s)|year(s)' the
\* classifier accepts, N >= 0.
C22_NextDateStrictlyLater ==
  (RecHasSuccessor /\ ClassifyPattern(rc.rule) = "simple" /\ rc.anchor # NoDate) =>
    /\ rc.nextDate # NoDate
    /\ DayNum(rc.nextDate) > DayNum(rc.anchor)
    /\ (~rc.whenDone /\ PrimaryDate(rc.task) # NoDate) =>
         DayNum(PrimaryDate(rc.next)) > DayNum(PrimaryDate(rc.task))


(***************************************************************************)
(* Further claims about completeTask, checked under Spec.                  *)
(***************************************************************************)
\* the rule of the completed line is 'every <month name> on the last'
LastRuleIsMonthOnTheLast ==
  LET t == RuleText(ParseRecurrenceRule(LastTask.recurrence).rule)
  IN /\ Len(t) = 5
     /\ \E m \in 1..12 : MonthNames[m] = t[2]
     /\ <<t[1], t[3], t[4], t[5]>> = <<"every", "on", "the", "last">>

\* C23: completing a task whose rule is 'every <Month> on the last' (such
\* as 'every February on the last' with the due date 2025-02-28) creates a
\* successor due on the last day of that month of the following year
\* (2026-02-28) and the message holds 'Created next recurring task'.
C23_MonthOnTheLastCreatesSuccessor ==
  (last.success /\ LastInRange /\ LastTask # Null /\ LastTask.recurrence # <<>>
     /\ LastRuleIsMonthOnTheLast /\ LastTask.dueDate # NoDate /\ last.lib = "ok") =>
    LET due == LastTask.dueDate
        month == MonthOfName(RuleText(LastTask.recurrence)[2])
    IN /\ last.created
       /\ last.kind = "created_next"
       /\ Len(last.after) = Len(last.before) + 1
       /\ FirstDate(last.after[last.lineNumber + 1].body, "due") =
            <<due[1] + 1, month, DaysInMonth(due[1] + 1, month)>>


(***************************************************************************)
(* Further claims about parseTaskLine, checked under SpecRT.               *)
(***************************************************************************)
\* the tokens from the start of s up to the next metadata token of any kind
RECURSIVE UpToMetadata(_)
UpToMetadata(s) ==
  IF s = <<>> \/ s[1].k \notin {"word", "space"} THEN <<>>
  ELSE <<s[1]>> \o UpToMetadata(Tail(s))

\* the tokens after the first recurrence marker of s
RECURSIVE AfterRecurrenceMarker(_)
AfterRecurrenceMarker(s) ==
  IF s = <<>> THEN <<>>
  ELSE IF s[1].k = "rec" THEN Tail(s)
  ELSE AfterRecurrenceMarker(Tail(s))

\* C24: the recurrence text parseTaskLine captures is the text after the
\* recurrence marker up to, and not including, the next metadata marker of
\* any kind (due, scheduled, start, created or completion date, priority,
\* tag) or the end of the line; a following completion token is never part
\* of it.
C24_RecurrenceStopsAtMetadata ==
  (rt.phase # "line" /\ rt.task # Null /\ OfKind(rt.line.body, "rec") # <<>>) =>
    /\ Trim(rt.task.recurrence) = Trim(UpToMetadata(AfterRecurrenceMarker(rt.line.body)))
    /\ OfKind(rt.task.recurrence, "done") = <<>>


(***************************************************************************)
(* Further claims about queryTasks, checked under SpecQuery.               *)
(***************************************************************************)
\* the tag texts of the tag queries
TagQueryTexts == {"#work", "#Work"}

\* one of the tags of the task, without its '#', equals the text
HasTagEqual(task, text) ==
  \E i \in 1..Len(task.tags) : StripHash(Chars(task.tags[i])) = text

\* C25: 'has tag <exact>' returns exactly the tasks one of whose tags,
\* without its leading '#', equals <exact>, and 'tag includes <text>' exactly
\* the tasks one of whose tags contains <text>, tags written with upper-case
\* letters included ('has tag #Work' against a task tagged #Work).
C25_TagFiltersMatchTags ==
  qr.phase = "done" =>
    \A x \in TagQueryTexts :
      /\ qr.query = OneLine(<<"has", "tag", x>>) =>
           Range(qr.result) =
             { t \in Range(qr.tasks) : HasTagEqual(t, StripHash(Chars(x))) }
      /\ qr.query = OneLine(<<"tag", "includes", x>>) =>
           Range(qr.result) =
             { t \in Range(qr.tasks) : HasTagWith(t, StripHash(Chars(x))) }


\* C26: the successor line completeTask inserts starts with exactly the
\* leading whitespace and '>' prefix of the completed line, followed by
\* '- [ ] ', for every indentation depth and blockquote nesting.
C26_SuccessorKeepsIndentation ==
  (last.success /\ last.created) =>
    LET successor == last.after[last.lineNumber + 1]
    IN /\ successor.indent = last.before[last.lineNumber].indent
       /\ successor.marker = "-"
       /\ successor.box = " "

\* a successor was inserted below a task nested in blockquotes
C26_Witness ==
  /\ last.success /\ last.created
  /\ last.before[last.lineNumber].indent = "    > > "
  /\ last.after[last.lineNumber + 1].indent = "    > > "


(***************************************************************************)
(* Claims about the successor, checked under SpecRec.                      *)
(***************************************************************************)
\* C27: the successor calculateNextOccurrence builds has the status
\* incomplete and the status symbol ' ' whatever the status symbol of the
\* original, keeps the priority, the full recurrence text ('when done'
\* included) and all the tags of the original in their order, and its line
\* carries no completion-date token.
C27_SuccessorFields ==
  RecHasSuccessor =>
    /\ rc.next.status = "incomplete"
    /\ rc.next.statusSymbol = " "
    /\ rc.next.originalMarkdown.box = " "
    /\ rc.next.priority = rc.task.priority
    /\ rc.next.recurrence = rc.task.recurrence
    /\ rc.next.tags = rc.task.tags
    /\ OfKind(rc.next.originalMarkdown.body, "done") = <<>>

\* C29: the line of a successor agrees with its fields: parseTaskLine of
\* the line of a successor gives the dueDate, scheduledDate, startDate,
\* priority, recurrence and tags of the successor, for every original line
\* the parser accepts, lines where a created-date token or free text
\* follows the date and recurrence tokens included.
C29_SuccessorLineAgreesWithFields ==
  RecHasSuccessor =>
    LET again == ParseTaskLine(rc.next.originalMarkdown, VaultFile, 2)
    IN /\ again # Null
       /\ again.dueDate = rc.next.dueDate
       /\ again.scheduledDate = rc.next.scheduledDate
       /\ again.startDate = rc.next.startDate
       /\ again.priority = rc.next.priority
       /\ again.recurrence = rc.next.recurrence
       /\ again.tags = rc.next.tags


(***************************************************************************)
(* Further claims about calculateUrgency, checked under SpecUrg.           *)
(***************************************************************************)
\* the urgency of the scored task with another due date
UrgencyWithDue(due) == CalculateUrgency([ug.task EXCEPT !.dueDate = due], ug.now)

\* C28: urgency is monotone in the due date: of two tasks that differ only
\* in their due date the one due earlier has an urgency greater than or
\* equal to the other's, and every task overdue by 7 days or more gets the
\* same due component, 12.0.
C28_UrgencyMonotoneInDueDate ==
  (ug.phase = "scored" /\ ~Unusable(ug.task.dueDate)) =>
    /\ \A later \in UrgencyDueDates :
         (~Unusable(later) /\ DayNum(later) > DayNum(ug.task.dueDate)) =>
           UrgencyWithDue(later) <= ug.urgency
    /\ DayNum(ug.task.dueDate) <= DayNum(FormatLocal(ug.now)) - 7 =>
         ug.urgency - UrgencyWithDue(NoDate) = 1200000

\* a task overdue by 9 days was scored, and one due later scores less
C28_Witness ==
  /\ ug.phase = "scored" /\ ~Unusable(ug.task.dueDate)
  /\ DayNum(ug.task.dueDate) = DayNum(FormatLocal(ug.now)) - 9
  /\ ug.urgency - UrgencyWithDue(NoDate) = 1200000
  /\ \E later \in UrgencyDueDates :
       ~Unusable(later) /\ UrgencyWithDue(later) < ug.urgency


====
